---------------------------- MODULE Spec2Model ----------------------------
(***************************************************************************)
(* GuildQuest (src/mainold.py): campaigns, quest events, sharing and the   *)
(* menu loops of GuildQuestApp.                                            *)
(*                                                                         *)
(* The specifications are defined over the same variables:                 *)
(*   SpecShare  the Campaign / QuestEvent objects driven directly through  *)
(*              share_with, unshare_with and visibility assignments with   *)
(*              arbitrary usernames;                                       *)
(*   Spec       the program from its entry point: load, then the menu      *)
(*              loops of GuildQuestApp.run acting on the application's     *)
(*              stores and on the document on disk.                        *)
(* Python's None is the string "None"; enum members are their value tags.  *)
(***************************************************************************)
EXTENDS Integers, Sequences, FiniteSets, TLC

VARIABLES users, realms, campaigns, events, id_counters, current_user,
          pc, camp, ev, last,
          characters, issued, file, input, output, app, edits

vars == <<users, realms, campaigns, events, id_counters, current_user,
          pc, camp, ev, last,
          characters, issued, file, input, output, app, edits>>

\* characters: GuildQuestApp.characters; issued: the ids _new_id has
\* returned, per kind, oldest first; file: the document on disk; input and
\* output: the arguments and the result (or the printed listing) of the
\* function a specification applies; app: the objects of src/app.py, None
\* in the specifications of src/mainold.py; edits: the number of steps Spec
\* has taken that MaxEdits caps and SpecQuest that MaxWrites caps, 0 in the
\* other specifications.
others == <<characters, issued, file, input, output, app, edits>>

\* issued before any id is drawn: one list per kind of id
NoneIssued == [realm |-> <<>>, campaign |-> <<>>, event |-> <<>>, char |-> <<>>]

\* file is <<>> while there is no document on disk, <<doc>> when there is
NoFile == <<>>

(*************************** bounds ****************************************)
\* number of distinct usernames that are ever typed or passed as arguments
MaxNames == 4
\* number of distinct usernames typed at the menus of GuildQuestApp
MaxUsers == 2
\* cap on the campaign id counter: at most this many create_campaign calls
MaxCampaigns == 1
\* cap on the event id counter: at most this many add_event_to_campaign calls
MaxEvents == 1
\* cap on the realm id counter
MaxRealms == 2
\* cap on the character id counter
MaxChars == 1
\* the largest store save is applied to, in users and campaigns
MaxSaved == 1
\* cap on edits, the steps of a session that write names, times, realms,
\* settings, participants, inventories or the document on disk
MaxEdits == 2

NamePool == <<"ann", "bob", "cy", "dee", "eve", "fay">>
Usernames == {NamePool[i] : i \in 1..MaxNames}
TypedNames == {NamePool[i] : i \in 1..MaxUsers}

(*************************** enums *****************************************)
None == "None"
Visibility == {"PUBLIC", "PRIVATE"}
PermissionLevel == {"VIEW_ONLY", "COLLABORATIVE"}

(*************************** Share *****************************************)
Share(username, permission) ==
    [shared_with_user |-> username, permission |-> permission]

\* "for s in self.shares: if s.shared_with_user == username": the first match
HasShare(shares, username) ==
    \E i \in 1..Len(shares) : shares[i].shared_with_user = username

FirstShare(shares, username) ==
    CHOOSE i \in 1..Len(shares) :
        /\ shares[i].shared_with_user = username
        /\ \A j \in 1..(i - 1) : shares[j].shared_with_user # username

\* variant: never looks for an existing entry
UpsertShare_always_append(shares, username, permission) ==
    Append(shares, Share(username, permission))

\* the loop shared by both share_with methods: overwrite the first match and
\* return, else append
UpsertShare(shares, username, permission) ==
    IF HasShare(shares, username)
    THEN [shares EXCEPT ![FirstShare(shares, username)].permission = permission]
    ELSE Append(shares, Share(username, permission))

\* variant: the comparison inverted, keeping the username's entries
RemoveShares_keep_matching(shares, username) ==
    SelectSeq(shares, LAMBDA s : s.shared_with_user = username)

\* [s for s in self.shares if s.shared_with_user != username]
RemoveShares(shares, username) ==
    SelectSeq(shares, LAMBDA s : s.shared_with_user # username)

(*************************** QuestEvent ************************************)
WorldClockTime(day, hour, minute) ==
    [day |-> day, hour |-> hour, minute |-> minute]

\* end_time is <<>> for None and <<t>> for a time
NoEnd == <<>>

\* the dataclass QuestEvent as add_event_to_campaign constructs it:
\* participants, shares and inventory changes start empty
QuestEvent(eid, name, start_time, end_time, rid) ==
    [event_id |-> eid, name |-> name, start_time |-> start_time,
     end_time |-> end_time, realm_id |-> rid, participant_char_ids |-> <<>>,
     shares |-> <<>>, inventory_changes |-> <<>>]

\* the event of an empty name prompt (`strip() or eid`), START 0 / 0 / 0 and
\* no end time
NewQuestEvent(eid, rid) ==
    QuestEvent(eid, eid, WorldClockTime(0, 0, 0), NoEnd, rid)

QuestEvent_share_with(e, username, permission) ==
    [e EXCEPT !.shares = UpsertShare(e.shares, username, permission)]

QuestEvent_unshare_with(e, username) ==
    [e EXCEPT !.shares = RemoveShares(e.shares, username)]

\* variant: the owner comparison left out
QuestEvent_get_permission_shares_only(e, username, owner_username) ==
    IF HasShare(e.shares, username)
    THEN e.shares[FirstShare(e.shares, username)].permission
    ELSE None

QuestEvent_get_permission(e, username, owner_username) ==
    IF username = owner_username THEN "COLLABORATIVE"
    ELSE IF HasShare(e.shares, username)
         THEN e.shares[FirstShare(e.shares, username)].permission
         ELSE None

(*************************** Campaign **************************************)
\* Campaign as create_campaign builds it from an empty name prompt
\* (`strip() or cid`)
NewCampaign(cid, owner) ==
    [campaign_id |-> cid, owner_username |-> owner, name |-> cid,
     visibility |-> "PRIVATE", archived |-> FALSE, quest_event_ids |-> <<>>,
     shares |-> <<>>]

\* variant: the owner guard left out
Campaign_share_with_no_owner_guard(c, username, permission) ==
    [c EXCEPT !.shares = UpsertShare(c.shares, username, permission)]

Campaign_share_with(c, username, permission) ==
    IF username = c.owner_username THEN c
    ELSE [c EXCEPT !.shares = UpsertShare(c.shares, username, permission)]

Campaign_unshare_with(c, username) ==
    [c EXCEPT !.shares = RemoveShares(c.shares, username)]

\* variant: visibility tested before ownership
Campaign_get_permission_public_first(c, username) ==
    IF c.visibility = "PUBLIC" THEN "VIEW_ONLY"
    ELSE IF username = c.owner_username THEN "COLLABORATIVE"
    ELSE IF HasShare(c.shares, username)
         THEN c.shares[FirstShare(c.shares, username)].permission
         ELSE None

\* variant: the share list consulted before visibility
Campaign_get_permission_share_first(c, username) ==
    IF username = c.owner_username THEN "COLLABORATIVE"
    ELSE IF HasShare(c.shares, username)
         THEN c.shares[FirstShare(c.shares, username)].permission
         ELSE IF c.visibility = "PUBLIC" THEN "VIEW_ONLY" ELSE None

\* variant: falls through to VIEW_ONLY instead of None
Campaign_get_permission_default_view(c, username) ==
    IF username = c.owner_username THEN "COLLABORATIVE"
    ELSE IF c.visibility = "PUBLIC" THEN "VIEW_ONLY"
    ELSE IF HasShare(c.shares, username)
         THEN c.shares[FirstShare(c.shares, username)].permission
         ELSE "VIEW_ONLY"

Campaign_get_permission(c, username) ==
    IF username = c.owner_username THEN "COLLABORATIVE"
    ELSE IF c.visibility = "PUBLIC" THEN "VIEW_ONLY"
    ELSE IF HasShare(c.shares, username)
         THEN c.shares[FirstShare(c.shares, username)].permission
         ELSE None

can_view(c, username) == Campaign_get_permission(c, username) # None

can_edit(c, username) == Campaign_get_permission(c, username) = "COLLABORATIVE"

(*************************** history ***************************************)
\* last: the most recent call, its arguments, and the level the username
\* held in the target's share list just before it ("None" if it held none)
NoCall == [op |-> "none", target |-> None, username |-> None,
           permission |-> None, old |-> None]

Call(op, target, username, permission, old) ==
    [op |-> op, target |-> target, username |-> username,
     permission |-> permission, old |-> old]

ShareLevel(shares, username) ==
    IF HasShare(shares, username)
    THEN shares[FirstShare(shares, username)].permission
    ELSE None

(***************************************************************************)
(* SpecShare: one object, a Campaign as create_campaign builds it or a     *)
(* fresh QuestEvent, driven through its methods with arbitrary usernames.  *)
(***************************************************************************)
InitShare ==
    /\ app = None
    /\ edits = 0
    /\ characters = <<>>
    /\ issued = NoneIssued
    /\ file = NoFile
    /\ input = None
    /\ output = None
    /\ users = <<>>
    /\ realms = <<>>
    /\ id_counters = [realm |-> 1, campaign |-> 2, event |-> 2, char |-> 1]
    /\ current_user = None
    /\ pc = "api"
    /\ camp = None
    /\ ev = None
    /\ last = NoCall
    /\ \/ \E owner \in Usernames :
             /\ campaigns = ("P1" :> NewCampaign("P1", owner))
             /\ events = <<>>
       \/ /\ campaigns = <<>>
          /\ events = ("E1" :> NewQuestEvent("E1", "R1"))

frameShare == <<users, realms, id_counters, current_user, pc, camp, ev>>

CallCampaignShareWith(cid, username, permission) ==
    /\ cid \in DOMAIN campaigns
    /\ campaigns' = [campaigns EXCEPT
                       ![cid] = Campaign_share_with(@, username, permission)]
    /\ last' = Call("Campaign.share_with", cid, username, permission,
                    ShareLevel(campaigns[cid].shares, username))
    /\ UNCHANGED others
    /\ UNCHANGED <<events, frameShare>>

CallCampaignUnshareWith(cid, username) ==
    /\ cid \in DOMAIN campaigns
    /\ campaigns' = [campaigns EXCEPT ![cid] = Campaign_unshare_with(@, username)]
    /\ last' = Call("Campaign.unshare_with", cid, username, None,
                    ShareLevel(campaigns[cid].shares, username))
    /\ UNCHANGED others
    /\ UNCHANGED <<events, frameShare>>

CallSetVisibility(cid, v) ==
    /\ cid \in DOMAIN campaigns
    /\ campaigns' = [campaigns EXCEPT ![cid].visibility = v]
    /\ last' = Call("Campaign.visibility", cid, None, None, None)
    /\ UNCHANGED others
    /\ UNCHANGED <<events, frameShare>>

CallEventShareWith(eid, username, permission) ==
    /\ eid \in DOMAIN events
    /\ events' = [events EXCEPT
                    ![eid] = QuestEvent_share_with(@, username, permission)]
    /\ last' = Call("QuestEvent.share_with", eid, username, permission,
                    ShareLevel(events[eid].shares, username))
    /\ UNCHANGED others
    /\ UNCHANGED <<campaigns, frameShare>>

CallEventUnshareWith(eid, username) ==
    /\ eid \in DOMAIN events
    /\ events' = [events EXCEPT ![eid] = QuestEvent_unshare_with(@, username)]
    /\ last' = Call("QuestEvent.unshare_with", eid, username, None,
                    ShareLevel(events[eid].shares, username))
    /\ UNCHANGED others
    /\ UNCHANGED <<campaigns, frameShare>>

NextShare ==
    \/ \E cid \in DOMAIN campaigns, u \in Usernames, p \in PermissionLevel :
          CallCampaignShareWith(cid, u, p)
    \/ \E cid \in DOMAIN campaigns, u \in Usernames :
          CallCampaignUnshareWith(cid, u)
    \/ \E cid \in DOMAIN campaigns, v \in Visibility :
          CallSetVisibility(cid, v)
    \/ \E eid \in DOMAIN events, u \in Usernames, p \in PermissionLevel :
          CallEventShareWith(eid, u, p)
    \/ \E eid \in DOMAIN events, u \in Usernames :
          CallEventUnshareWith(eid, u)

SpecShare == InitShare /\ [][NextShare]_vars

(***************************************************************************)
(* Properties of the sharing model (checked under SpecShare)               *)
(***************************************************************************)
SharesOf(shares, username) ==
    {i \in 1..Len(shares) : shares[i].shared_with_user = username}

ExactlyOneShare(shares, username, permission) ==
    /\ Cardinality(SharesOf(shares, username)) = 1
    /\ \A i \in SharesOf(shares, username) : shares[i].permission = permission

IsShareCall(l) == l.op \in {"Campaign.share_with", "QuestEvent.share_with"}

IsUnshareCall(l) == l.op \in {"Campaign.unshare_with", "QuestEvent.unshare_with"}

\* the share list of the object a call record names, in the given stores
TargetShares(l, cs, es) ==
    IF l.op \in {"Campaign.share_with", "Campaign.unshare_with"}
    THEN cs[l.target].shares
    ELSE es[l.target].shares

\* C1: in every reachable state the owner of a campaign resolves
\* COLLABORATIVE, so the owner can view and can edit, whatever the
\* visibility and the share list are.
C1_OwnerAlwaysCollaborative ==
    \A cid \in DOMAIN campaigns :
        LET c == campaigns[cid] IN
        /\ Campaign_get_permission(c, c.owner_username) = "COLLABORATIVE"
        /\ can_view(c, c.owner_username)
        /\ can_edit(c, c.owner_username)

C1_Witness ==
    \E cid \in DOMAIN campaigns :
        LET c == campaigns[cid] IN
        /\ c.visibility = "PUBLIC"
        /\ Len(c.shares) >= 1
        /\ last.op = "Campaign.share_with"
        /\ last.username = c.owner_username

\* C2: the owner never has an entry in the campaign's share list, and
\* share_with(owner_username, level) leaves the share list unchanged.
OwnerNeverShared ==
    \A cid \in DOMAIN campaigns :
        SharesOf(campaigns[cid].shares, campaigns[cid].owner_username) = {}

ShareWithOwnerIsNoOp ==
    (/\ last'.op = "Campaign.share_with"
     /\ last'.username = campaigns[last'.target].owner_username)
    => campaigns'[last'.target].shares = campaigns[last'.target].shares

C2_OwnerNeverInShares == []OwnerNeverShared /\ [][ShareWithOwnerIsNoOp]_vars

C2_Witness ==
    \E cid \in DOMAIN campaigns :
        /\ last.op = "Campaign.share_with"
        /\ last.target = cid
        /\ last.username = campaigns[cid].owner_username
        /\ last.permission = "COLLABORATIVE"
        /\ Len(campaigns[cid].shares) >= 1

\* C3 (as stated): at most one Share per username in a campaign's and in an
\* event's share list, and share_with(u, L1) followed by share_with(u, L2)
\* on the same object leaves exactly one Share for u, with level L2.
AtMostOneSharePerUser ==
    /\ \A cid \in DOMAIN campaigns, u \in Usernames :
          Cardinality(SharesOf(campaigns[cid].shares, u)) <= 1
    /\ \A eid \in DOMAIN events, u \in Usernames :
          Cardinality(SharesOf(events[eid].shares, u)) <= 1

TwoShareCalls ==
    /\ IsShareCall(last) /\ IsShareCall(last')
    /\ last'.op = last.op
    /\ last'.target = last.target
    /\ last'.username = last.username

C3_Original_SecondShareLeavesOne ==
    []AtMostOneSharePerUser
    /\ [][TwoShareCalls =>
            ExactlyOneShare(TargetShares(last', campaigns', events'),
                            last'.username, last'.permission)]_vars

\* C3 (amended): as stated for a QuestEvent and for a Campaign when u is not
\* the owner; on a Campaign with u the owner both calls leave the list as it
\* was, with no Share for u.
SecondShareCall ==
    TwoShareCalls =>
        IF /\ last'.op = "Campaign.share_with"
           /\ last'.username = campaigns[last'.target].owner_username
        THEN /\ campaigns'[last'.target].shares = campaigns[last'.target].shares
             /\ SharesOf(campaigns'[last'.target].shares, last'.username) = {}
        ELSE ExactlyOneShare(TargetShares(last', campaigns', events'),
                             last'.username, last'.permission)

C3_UpsertExceptOwner == []AtMostOneSharePerUser /\ [][SecondShareCall]_vars

\* the second call overwrote a different level, on a list holding another
\* user's Share as well
C3_Witness ==
    /\ IsShareCall(last)
    /\ last.old = "VIEW_ONLY"
    /\ last.permission = "COLLABORATIVE"
    /\ Len(TargetShares(last, campaigns, events)) >= 2

\* rank of a resolved level: COLLABORATIVE > VIEW_ONLY > absent
Rank(level) ==
    IF level = "COLLABORATIVE" THEN 2 ELSE IF level = "VIEW_ONLY" THEN 1 ELSE 0

\* the levels granted to username by ownership, by visibility and by a Share
GrantedLevels(c, username) ==
    (IF username = c.owner_username THEN {"COLLABORATIVE"} ELSE {})
    \cup (IF c.visibility = "PUBLIC" THEN {"VIEW_ONLY"} ELSE {})
    \cup {c.shares[i].permission : i \in SharesOf(c.shares, username)}
    \cup {None}

\* C4: Campaign.get_permission(u) is the greatest of the levels granted by
\* ownership, PUBLIC visibility and u's Share; a non-owner holding a
\* COLLABORATIVE share on a PUBLIC campaign resolves COLLABORATIVE.
C4_ResolverIsMaximal ==
    \A cid \in DOMAIN campaigns, u \in Usernames :
        LET c == campaigns[cid] IN
        \A g \in GrantedLevels(c, u) :
            Rank(Campaign_get_permission(c, u)) >= Rank(g)

\* C5: first match wins: owner -> COLLABORATIVE; else PUBLIC -> VIEW_ONLY
\* whatever the share says; else the level of u's Share; else absent. On a
\* PUBLIC campaign a non-owner without a share can view and cannot edit.
C5_FirstMatchWins ==
    \A cid \in DOMAIN campaigns, u \in Usernames :
        LET c == campaigns[cid]
            r == Campaign_get_permission(c, u)
            mine == SharesOf(c.shares, u)
        IN  /\ u = c.owner_username => r = "COLLABORATIVE"
            /\ (u # c.owner_username /\ c.visibility = "PUBLIC")
                  => r = "VIEW_ONLY"
            /\ (u # c.owner_username /\ c.visibility # "PUBLIC" /\ mine # {})
                  => \A i \in mine : r = c.shares[i].permission
            /\ (u # c.owner_username /\ c.visibility # "PUBLIC" /\ mine = {})
                  => r = None
            /\ (u # c.owner_username /\ c.visibility = "PUBLIC" /\ mine = {})
                  => (can_view(c, u) /\ ~can_edit(c, u))

\* a non-owner holds a COLLABORATIVE share on a PUBLIC campaign, and another
\* non-owner holds no share on it
C5_Witness ==
    \E cid \in DOMAIN campaigns, u \in Usernames, w \in Usernames :
        LET c == campaigns[cid] IN
        /\ c.visibility = "PUBLIC"
        /\ u # c.owner_username /\ w # c.owner_username
        /\ \E i \in SharesOf(c.shares, u) : c.shares[i].permission = "COLLABORATIVE"
        /\ SharesOf(c.shares, w) = {}

\* C6 (as stated): on a PRIVATE campaign every username without a share can
\* neither view nor edit.
C6_Original_PrivateNoShareNoAccess ==
    \A cid \in DOMAIN campaigns, u \in Usernames :
        LET c == campaigns[cid] IN
        (c.visibility = "PRIVATE" /\ SharesOf(c.shares, u) = {})
            => (~can_view(c, u) /\ ~can_edit(c, u))

\* C6 (amended): on a PRIVATE campaign every username other than the owner
\* that has no share can neither view nor edit.
C6_PrivateNoShareNonOwnerNoAccess ==
    \A cid \in DOMAIN campaigns, u \in Usernames :
        LET c == campaigns[cid] IN
        (c.visibility = "PRIVATE" /\ u # c.owner_username
           /\ SharesOf(c.shares, u) = {})
            => (~can_view(c, u) /\ ~can_edit(c, u))

\* a PRIVATE campaign on which one non-owner holds a share and another,
\* whose share was just removed, holds none
C6_Witness ==
    \E cid \in DOMAIN campaigns :
        LET c == campaigns[cid] IN
        /\ c.visibility = "PRIVATE"
        /\ Len(c.shares) >= 1
        /\ last.op = "Campaign.unshare_with"
        /\ last.username # c.owner_username
        /\ last.old # None

\* C7 (as stated): QuestEvent.get_permission evaluates no owner check: it
\* returns the level of u's Share, or absent, whatever owner is supplied.
C7_Original_EventResolverSharesOnly ==
    \A eid \in DOMAIN events, u \in Usernames, owner \in Usernames :
        LET e == events[eid]
            r == QuestEvent_get_permission(e, u, owner)
            mine == SharesOf(e.shares, u)
        IN  /\ mine # {} => \A i \in mine : r = e.shares[i].permission
            /\ mine = {} => r = None

\* C7 (amended): QuestEvent.get_permission(u, owner_username) returns
\* COLLABORATIVE when u equals the owner_username it is passed; otherwise the
\* level of u's Share on the event, or absent when there is none.
C7_EventResolverOwnerThenShares ==
    \A eid \in DOMAIN events, u \in Usernames, owner \in Usernames :
        LET e == events[eid]
            r == QuestEvent_get_permission(e, u, owner)
            mine == SharesOf(e.shares, u)
        IN  /\ u = owner => r = "COLLABORATIVE"
            /\ (u # owner /\ mine # {}) => \A i \in mine : r = e.shares[i].permission
            /\ (u # owner /\ mine = {}) => r = None

\* an event on which one user holds a VIEW_ONLY share and another holds none
C7_Witness ==
    \E eid \in DOMAIN events, u \in Usernames, w \in Usernames :
        LET e == events[eid] IN
        /\ \E i \in SharesOf(e.shares, u) : e.shares[i].permission = "VIEW_ONLY"
        /\ SharesOf(e.shares, w) = {}
        /\ Len(e.shares) >= 2

\* C8: unshare_with(username) removes username's Share and keeps every other
\* Share, with its level, in the same relative order; with no Share for
\* username the list is unchanged; afterwards a non-owner username resolves
\* to no access on a PRIVATE campaign.
Kept(shares, username) ==
    {i \in 1..Len(shares) : shares[i].shared_with_user # username}

UnshareKeepsOthers ==
    IsUnshareCall(last') =>
        LET before == TargetShares(last', campaigns, events)
            after == TargetShares(last', campaigns', events')
            keep == Kept(before, last'.username)
        IN  /\ Len(after) = Cardinality(keep)
            /\ \A i \in keep :
                  after[Cardinality({j \in keep : j <= i})] = before[i]
            /\ SharesOf(after, last'.username) = {}
            /\ SharesOf(before, last'.username) = {} => after = before

UnsharedHasNoAccess ==
    \A cid \in DOMAIN campaigns :
        (/\ last.op = "Campaign.unshare_with"
         /\ last.target = cid
         /\ campaigns[cid].visibility = "PRIVATE"
         /\ last.username # campaigns[cid].owner_username)
        => /\ Campaign_get_permission(campaigns[cid], last.username) = None
           /\ ~can_view(campaigns[cid], last.username)

C8_UnshareRemovesOnlyThatUser ==
    []UnsharedHasNoAccess /\ [][UnshareKeepsOthers]_vars

\* a non-owner's Share was removed from a PRIVATE campaign that still holds
\* the Shares of two other users
C8_Witness ==
    /\ last.op = "Campaign.unshare_with"
    /\ last.old # None
    /\ campaigns[last.target].visibility = "PRIVATE"
    /\ last.username # campaigns[last.target].owner_username
    /\ Len(campaigns[last.target].shares) >= 2

(***************************************************************************)
(* Spec: the program from its entry point: GuildQuestApp(), load() and    *)
(* run().  pc is the menu loop the session is in; camp and ev are the      *)
(* campaign and the event the edit loops hold.  The loops that take a      *)
(* whole dialogue before they return to their menu (event participants,    *)
(* event inventory changes, a character's inventory) are one step each,    *)
(* the dialogue being the script typed.  Choices that only print (the      *)
(* listings, choice 7 and 0 of the main menu) are not steps.  edits counts *)
(* the steps that write a name, a time, a realm, a setting, a participant  *)
(* list, an inventory or the document on disk; the disjuncts of Next cap   *)
(* it at MaxEdits.                                                         *)
(***************************************************************************)
NewRealm(rid) ==
    [realm_id |-> rid, name |-> "Earth", time_rule |-> [offset_minutes |-> 0]]

NewUser(username, rid) ==
    [username |-> username,
     settings |-> [current_realm_id |-> rid, theme |-> "classic",
                   time_display |-> "WORLD"],
     campaign_ids |-> <<>>, character_ids |-> <<>>]

\* f"{prefix}{n}" with n the counter of the kind
new_id(kind, prefix) == prefix \o ToString(id_counters[kind])

\* variant: the counter of the kind left as it is
bump_not_incremented(kind) == id_counters

bump(kind) == [id_counters EXCEPT ![kind] = @ + 1]

\* create_realm: an empty name prompt gives f"Realm{rid}"
CreatedRealm(rid, name, offset) ==
    [realm_id |-> rid, name |-> IF name = "" THEN "Realm" \o rid ELSE name,
     time_rule |-> [offset_minutes |-> offset]]

\* GuildQuestApp() with no guildquest_data.json in the working directory
Init ==
    /\ app = None
    /\ edits = 0
    /\ characters = <<>>
    /\ issued = NoneIssued
    /\ file = NoFile
    /\ input = None
    /\ output = None
    /\ users = <<>>
    /\ realms = <<>>
    /\ campaigns = <<>>
    /\ events = <<>>
    /\ id_counters = [realm |-> 1, campaign |-> 1, event |-> 1, char |-> 1]
    /\ current_user = None
    /\ pc = "start"
    /\ camp = None
    /\ ev = None
    /\ last = NoCall

require_login == current_user # None /\ current_user \in DOMAIN users

RealmIds == {realms[i].realm_id : i \in 1..Len(realms)}

Range(seq) == {seq[i] : i \in 1..Len(seq)}

\* variant: nothing dropped
RemoveFirst_kept(seq, x) == seq

\* list.remove(x): drops the first occurrence
RemoveFirst(seq, x) ==
    LET i == CHOOSE k \in 1..Len(seq) :
                 seq[k] = x /\ \A j \in 1..(k - 1) : seq[j] # x
    IN  SubSeq(seq, 1, i - 1) \o SubSeq(seq, i + 1, Len(seq))

\* the ids offered by the two campaign pickers
pick_campaign_i_can_view(username) ==
    {cid \in DOMAIN campaigns : can_view(campaigns[cid], username)}

pick_campaign_i_can_edit(username) ==
    {cid \in DOMAIN campaigns : can_edit(campaigns[cid], username)}

\* the ids offered by the event picker of edit_event and
\* remove_event_from_campaign
pick_event(c) == {eid \in Range(c.quest_event_ids) : eid \in DOMAIN events}

(*************************** inventories ***********************************)
\* Character as create_character builds it from empty prompts and level 1
NewCharacter(cid) ==
    [char_id |-> cid, name |-> cid, class_name |-> "Adventurer", level |-> 1,
     inventory |-> <<>>]

InventoryItem(name, description) ==
    [name |-> name, description |-> description, type |-> "misc", rarity |-> 0]

InventoryChange(item, delta_qty, target_char_id) ==
    [item |-> item, delta_qty |-> delta_qty, target_char_id |-> target_char_id]

\* Character.add_item
add_item(inventory, item) == Append(inventory, item)

\* the loop of remove_item_by_name over the copy of the inventory
RECURSIVE RemoveLoop(_, _, _, _, _)
RemoveLoop(copy, inventory, item_name, qty, removed) ==
    IF copy = <<>> \/ removed >= qty THEN inventory
    ELSE IF Head(copy).name = item_name
         THEN RemoveLoop(Tail(copy), RemoveFirst(inventory, Head(copy)),
                         item_name, qty, removed + 1)
         ELSE RemoveLoop(Tail(copy), inventory, item_name, qty, removed)

\* variant: every item of the name removed, whatever qty is
remove_item_by_name_all(inventory, item_name, qty) ==
    SelectSeq(inventory, LAMBDA it : it.name # item_name)

\* the inventory Character.remove_item_by_name leaves
remove_item_by_name(inventory, item_name, qty) ==
    RemoveLoop(inventory, inventory, item_name, qty, 0)

\* variant: the change's own target ignored
Targets_all_participants(e, chg) == e.participant_char_ids

\* `if chg.target_char_id:` is a truth test: None and the empty string both
\* give the event's participants.  The prompt stores `strip() or None`, so
\* the empty string reaches here only from a document not written by save.
Targets(e, chg) ==
    IF chg.target_char_id # None /\ chg.target_char_id # ""
    THEN <<chg.target_char_id>>
    ELSE e.participant_char_ids

RECURSIVE AddTimes(_, _, _)
AddTimes(inventory, item, n) ==
    IF n <= 0 THEN inventory ELSE AddTimes(add_item(inventory, item), item, n - 1)

\* the body of the loop over the targets, for one character
ApplyToCharacter(ch, chg) ==
    IF chg.delta_qty > 0
    THEN [ch EXCEPT !.inventory = AddTimes(@, chg.item, chg.delta_qty)]
    ELSE IF chg.delta_qty < 0
    THEN [ch EXCEPT !.inventory =
             remove_item_by_name(@, chg.item.name, -chg.delta_qty)]
    ELSE ch

RECURSIVE ApplyTargets(_, _, _)
ApplyTargets(chars, targets, chg) ==
    IF targets = <<>> THEN chars
    ELSE IF Head(targets) \notin DOMAIN chars
         THEN ApplyTargets(chars, Tail(targets), chg)
         ELSE ApplyTargets([chars EXCEPT ![Head(targets)] =
                               ApplyToCharacter(@, chg)],
                           Tail(targets), chg)

RECURSIVE ApplyChanges(_, _, _)
ApplyChanges(chars, e, changes) ==
    IF changes = <<>> THEN chars
    ELSE ApplyChanges(ApplyTargets(chars, Targets(e, Head(changes)),
                                   Head(changes)),
                      e, Tail(changes))

(*************************** event sub-menus *******************************)
\* What is typed at a sub-menu loop until its 0 is a script: a sequence of
\* steps [c |-> the choice, arg |-> what is entered after it].  Each loop
\* is folded over its script; ok tells whether every pick of the script is
\* one the picker shown at that point offers.
Step(c, arg) == [c |-> c, arg |-> arg]

\* the characters _edit_event_participants offers to add: those of the
\* current user that are in the store
OfferedCharacters(us, chars, username) ==
    SelectSeq(us[username].character_ids, LAMBDA cid : cid \in DOMAIN chars)

\* one pass of the loop of _edit_event_participants: 1 appends the picked
\* character unless it is a participant already, 2 removes the picked
\* participant; a cancelled picker (arg = None) changes nothing
ParticipantsStep(e, st) ==
    IF st.arg = None THEN e
    ELSE IF st.c = "1"
    THEN IF st.arg \in Range(e.participant_char_ids) THEN e
         ELSE [e EXCEPT !.participant_char_ids = Append(@, st.arg)]
    ELSE [e EXCEPT !.participant_char_ids = RemoveFirst(@, st.arg)]

ParticipantsStepOffered(e, st, offered) ==
    \/ st.arg = None
    \/ st.c = "1" /\ st.arg \in Range(offered)
    \/ st.c = "2" /\ st.arg \in Range(e.participant_char_ids)

\* _edit_event_participants(e) after require_login, the script typed
RECURSIVE EditParticipants(_, _, _)
EditParticipants(e, offered, script) ==
    IF script = <<>> THEN [e |-> e, ok |-> TRUE]
    ELSE IF ~ParticipantsStepOffered(e, Head(script), offered)
    THEN [e |-> e, ok |-> FALSE]
    ELSE EditParticipants(ParticipantsStep(e, Head(script)), offered,
                          Tail(script))

\* list.pop(idx - 1)
Pop(seq, idx) == SubSeq(seq, 1, idx - 1) \o SubSeq(seq, idx + 1, Len(seq))

\* _edit_event_inventory_changes(e), the script typed: 1 appends the change
\* entered, 2 pops the change picked (nothing to pick from an empty list),
\* 3 applies the event's changes to the characters
RECURSIVE EditInventoryChanges(_, _, _)
EditInventoryChanges(e, chars, script) ==
    IF script = <<>> THEN [e |-> e, characters |-> chars, ok |-> TRUE]
    ELSE LET st == Head(script) IN
         IF st.c = "1"
         THEN EditInventoryChanges(
                  [e EXCEPT !.inventory_changes = Append(@, st.arg)],
                  chars, Tail(script))
         ELSE IF st.c = "2"
         THEN IF e.inventory_changes = <<>>
              THEN EditInventoryChanges(e, chars, Tail(script))
              ELSE IF st.arg \notin 1..Len(e.inventory_changes)
              THEN [e |-> e, characters |-> chars, ok |-> FALSE]
              ELSE EditInventoryChanges(
                       [e EXCEPT !.inventory_changes = Pop(@, st.arg)],
                       chars, Tail(script))
         ELSE EditInventoryChanges(
                  e, ApplyChanges(chars, e, e.inventory_changes),
                  Tail(script))

\* the two calls that end add_event_to_campaign, and choices 5 and 8 of
\* edit_event: _edit_event_participants returns at once without a login
EditEventLoops(e, us, chars, username, pscript, iscript) ==
    LET logged == username # None /\ username \in DOMAIN us
        p == IF logged
             THEN EditParticipants(e, OfferedCharacters(us, chars, username),
                                   pscript)
             ELSE [e |-> e, ok |-> pscript = <<>>]
        i == EditInventoryChanges(p.e, chars, iscript)
    IN  [e |-> i.e, characters |-> i.characters, ok |-> p.ok /\ i.ok]

\* edit_character_inventory, the script typed for the picked character: 1
\* adds the item entered, 2 removes up to qty items of the name entered
RECURSIVE EditInventory(_, _)
EditInventory(inventory, script) ==
    IF script = <<>> THEN inventory
    ELSE LET st == Head(script) IN
         EditInventory(IF st.c = "1" THEN add_item(inventory, st.arg)
                       ELSE remove_item_by_name(inventory, st.arg.name,
                                                st.arg.qty),
                       Tail(script))

(*************************** persistence ***********************************)
TimeDisplayPreference == {"WORLD", "LOCAL", "BOTH"}

\* what save writes and load replaces
Store ==
    [id_counters |-> id_counters, current_user |-> current_user,
     users |-> users, realms |-> realms, campaigns |-> campaigns,
     events |-> events, characters |-> characters]

\* str(member) of an Enum with a str mixin: the qualified member name
str_PermissionLevel(p) == "PermissionLevel." \o p

share_to_dict(s) ==
    [shared_with_user |-> s.shared_with_user,
     permission |-> str_PermissionLevel(s.permission)]

\* asdict(c), visibility as c.visibility.value, each share's permission as
\* str(permission)
campaign_to_dict(c) ==
    [c EXCEPT !.shares = [i \in 1..Len(c.shares) |-> share_to_dict(c.shares[i])]]

event_to_dict(e) ==
    [e EXCEPT !.shares = [i \in 1..Len(e.shares) |-> share_to_dict(e.shares[i])]]

\* asdict(user): json.dump writes the time_display member as its value
user_to_dict(u) == u

realm_to_dict(r) == r

character_to_dict(c) == c

\* the payload of save
payload ==
    [id_counters |-> id_counters, current_user |-> current_user,
     users |-> [k \in DOMAIN users |-> user_to_dict(users[k])],
     realms |-> [i \in DOMAIN realms |-> realm_to_dict(realms[i])],
     campaigns |-> [k \in DOMAIN campaigns |-> campaign_to_dict(campaigns[k])],
     events |-> [k \in DOMAIN events |-> event_to_dict(events[k])],
     characters |-> [k \in DOMAIN characters |->
                        character_to_dict(characters[k])]]

\* PermissionLevel(tag) raises ValueError unless tag is a member's value
SharesDecodable(shares) ==
    \A i \in 1..Len(shares) : shares[i].permission \in PermissionLevel

dict_to_shares(shares) ==
    [i \in 1..Len(shares) |->
        Share(shares[i].shared_with_user, shares[i].permission)]

dict_to_campaign(d) == [d EXCEPT !.shares = dict_to_shares(d.shares)]

dict_to_event(d) == [d EXCEPT !.shares = dict_to_shares(d.shares)]

CampaignsDecodable(doc) ==
    \A k \in DOMAIN doc.campaigns :
        SharesDecodable(doc.campaigns[k].shares)

EventsDecodable(doc) ==
    \A k \in DOMAIN doc.events : SharesDecodable(doc.events[k].shares)

\* the collection whose decoding raises, for a document written by save:
\* users and realms of such a document always decode
LoadRaisesAt(doc) ==
    IF ~CampaignsDecodable(doc) THEN "campaigns"
    ELSE IF ~EventsDecodable(doc) THEN "events"
    ELSE None

\* the store load leaves from a document, attribute by attribute: an
\* exception raised while a collection is decoded leaves the attributes
\* assigned before it replaced and the others as they were
Loaded(doc) ==
    LET at == LoadRaisesAt(doc) IN
    [id_counters |-> doc.id_counters,
     users |-> doc.users,
     realms |-> doc.realms,
     campaigns |-> IF at = "campaigns" THEN campaigns
                   ELSE [k \in DOMAIN doc.campaigns |->
                            dict_to_campaign(doc.campaigns[k])],
     events |-> IF at # None THEN events
                ELSE [k \in DOMAIN doc.events |-> dict_to_event(doc.events[k])],
     characters |-> IF at # None THEN characters ELSE doc.characters,
     current_user |-> IF at = None /\ doc.current_user # None
                         /\ doc.current_user \notin DOMAIN doc.users
                      THEN None ELSE doc.current_user,
     raised |-> at # None]

\* what is typed at the prompts of the steps counted by edits
RealmNames == {"Mars"}

RealmOffsets == {-60}

Themes == {"dark"}

\* the entries typed at "Enter WORLD / LOCAL / BOTH: ": local, Local
\* between a tab and a no-break space, utc
TypedPreferences ==
    { <<108, 111, 99, 97, 108>>, <<9, 76, 111, 99, 97, 108, 160>>,
      <<117, 116, 99>> }

\* the entries typed at "Range (DAY/WEEK/MONTH/YEAR): ": day, hour
TypedRanges == { <<100, 97, 121>>, <<104, 111, 117, 114>> }

\* the anchors typed in view_timeline
Anchors == {WorldClockTime(0, 0, 0)}

CampaignNames == {"Mine"}

EventNames == {"raid"}

EventTimes == {WorldClockTime(1, 8, 30)}

\* two swords for every participant
Gift == InventoryChange(InventoryItem("sword", ""), 2, None)

ParticipantsScripts ==
    <<  <<Step("1", "C1")>>, <<Step("2", "C1")>>, <<Step("1", None)>>  >>

ChangesScripts ==
    <<  <<Step("1", Gift)>>, <<Step("1", Gift), Step("3", None)>>,
        <<Step("3", None)>>, <<Step("2", 1)>>  >>

InventoryScripts ==
    <<  <<Step("1", InventoryItem("potion", "red"))>>,
        <<Step("2", [name |-> "sword", qty |-> 1])>>  >>

\* the dialogues of add_event_to_campaign: both loops closed at once; a
\* participant added, a change entered and applied; a change entered
AddEventScripts ==
    <<  [p |-> <<>>, i |-> <<>>],
        [p |-> <<Step("1", "C1")>>,
         i |-> <<Step("1", Gift), Step("3", None)>>],
        [p |-> <<>>, i |-> <<Step("1", Gift)>>]  >>

\* the variables no step of Spec changes
unread == <<last, issued, input, output, app>>

\* A string whose characters matter is the sequence of its code points:
\* "local" is <<108, 111, 99, 97, 108>>.

\* the code points str.isspace() holds of, which str.strip() removes
whitespace ==
    (9..13) \cup (28..32) \cup {133, 160, 5760} \cup (8192..8202)
    \cup {8232, 8233, 8239, 8287, 12288}

\* the upper-case mappings of one code point to one code point, as runs
\* <<first, last, step, shift>>: every step-th code point from first to last
\* maps to itself plus shift (a..z is <<97, 122, 1, -32>>)
uppercase_runs ==
    <<
      <<97, 122, 1, -32>>, <<181, 181, 1, 743>>, <<224, 246, 1, -32>>,
      <<248, 254, 1, -32>>, <<255, 255, 1, 121>>, <<257, 303, 2, -1>>,
      <<305, 305, 1, -232>>, <<307, 311, 2, -1>>, <<314, 328, 2, -1>>,
      <<331, 375, 2, -1>>, <<378, 382, 2, -1>>, <<383, 383, 1, -300>>,
      <<384, 384, 1, 195>>, <<387, 389, 2, -1>>, <<392, 392, 1, -1>>,
      <<396, 396, 1, -1>>, <<402, 402, 1, -1>>, <<405, 405, 1, 97>>,
      <<409, 409, 1, -1>>, <<410, 410, 1, 163>>, <<414, 414, 1, 130>>,
      <<417, 421, 2, -1>>, <<424, 424, 1, -1>>, <<429, 429, 1, -1>>,
      <<432, 432, 1, -1>>, <<436, 438, 2, -1>>, <<441, 441, 1, -1>>,
      <<445, 445, 1, -1>>, <<447, 447, 1, 56>>, <<453, 453, 1, -1>>,
      <<454, 454, 1, -2>>, <<456, 456, 1, -1>>, <<457, 457, 1, -2>>,
      <<459, 459, 1, -1>>, <<460, 460, 1, -2>>, <<462, 476, 2, -1>>,
      <<477, 477, 1, -79>>, <<479, 495, 2, -1>>, <<498, 498, 1, -1>>,
      <<499, 499, 1, -2>>, <<501, 501, 1, -1>>, <<505, 543, 2, -1>>,
      <<547, 563, 2, -1>>, <<572, 572, 1, -1>>, <<575, 576, 1, 10815>>,
      <<578, 578, 1, -1>>, <<583, 591, 2, -1>>, <<592, 592, 1, 10783>>,
      <<593, 593, 1, 10780>>, <<594, 594, 1, 10782>>, <<595, 595, 1, -210>>,
      <<596, 596, 1, -206>>, <<598, 599, 1, -205>>, <<601, 601, 1, -202>>,
      <<603, 603, 1, -203>>, <<604, 604, 1, 42319>>, <<608, 608, 1, -205>>,
      <<609, 609, 1, 42315>>, <<611, 611, 1, -207>>, <<613, 613, 1, 42280>>,
      <<614, 614, 1, 42308>>, <<616, 616, 1, -209>>, <<617, 617, 1, -211>>,
      <<618, 618, 1, 42308>>, <<619, 619, 1, 10743>>,
      <<620, 620, 1, 42305>>, <<623, 623, 1, -211>>, <<625, 625, 1, 10749>>,
      <<626, 626, 1, -213>>, <<629, 629, 1, -214>>, <<637, 637, 1, 10727>>,
      <<640, 640, 1, -218>>, <<642, 642, 1, 42307>>, <<643, 643, 1, -218>>,
      <<647, 647, 1, 42282>>, <<648, 648, 1, -218>>, <<649, 649, 1, -69>>,
      <<650, 651, 1, -217>>, <<652, 652, 1, -71>>, <<658, 658, 1, -219>>,
      <<669, 669, 1, 42261>>, <<670, 670, 1, 42258>>, <<837, 837, 1, 84>>,
      <<881, 883, 2, -1>>, <<887, 887, 1, -1>>, <<891, 893, 1, 130>>,
      <<940, 940, 1, -38>>, <<941, 943, 1, -37>>, <<945, 961, 1, -32>>,
      <<962, 962, 1, -31>>, <<963, 971, 1, -32>>, <<972, 972, 1, -64>>,
      <<973, 974, 1, -63>>, <<976, 976, 1, -62>>, <<977, 977, 1, -57>>,
      <<981, 981, 1, -47>>, <<982, 982, 1, -54>>, <<983, 983, 1, -8>>,
      <<985, 1007, 2, -1>>, <<1008, 1008, 1, -86>>, <<1009, 1009, 1, -80>>,
      <<1010, 1010, 1, 7>>, <<1011, 1011, 1, -116>>, <<1013, 1013, 1, -96>>,
      <<1016, 1016, 1, -1>>, <<1019, 1019, 1, -1>>, <<1072, 1103, 1, -32>>,
      <<1104, 1119, 1, -80>>, <<1121, 1153, 2, -1>>, <<1163, 1215, 2, -1>>,
      <<1218, 1230, 2, -1>>, <<1231, 1231, 1, -15>>, <<1233, 1327, 2, -1>>,
      <<1377, 1414, 1, -48>>, <<4304, 4346, 1, 3008>>,
      <<4349, 4351, 1, 3008>>, <<5112, 5117, 1, -8>>,
      <<7296, 7296, 1, -6254>>, <<7297, 7297, 1, -6253>>,
      <<7298, 7298, 1, -6244>>, <<7299, 7300, 1, -6242>>,
      <<7301, 7301, 1, -6243>>, <<7302, 7302, 1, -6236>>,
      <<7303, 7303, 1, -6181>>, <<7304, 7304, 1, 35266>>,
      <<7545, 7545, 1, 35332>>, <<7549, 7549, 1, 3814>>,
      <<7566, 7566, 1, 35384>>, <<7681, 7829, 2, -1>>,
      <<7835, 7835, 1, -59>>, <<7841, 7935, 2, -1>>, <<7936, 7943, 1, 8>>,
      <<7952, 7957, 1, 8>>, <<7968, 7975, 1, 8>>, <<7984, 7991, 1, 8>>,
      <<8000, 8005, 1, 8>>, <<8017, 8023, 2, 8>>, <<8032, 8039, 1, 8>>,
      <<8048, 8049, 1, 74>>, <<8050, 8053, 1, 86>>, <<8054, 8055, 1, 100>>,
      <<8056, 8057, 1, 128>>, <<8058, 8059, 1, 112>>,
      <<8060, 8061, 1, 126>>, <<8112, 8113, 1, 8>>,
      <<8126, 8126, 1, -7205>>, <<8144, 8145, 1, 8>>, <<8160, 8161, 1, 8>>,
      <<8165, 8165, 1, 7>>, <<8526, 8526, 1, -28>>, <<8560, 8575, 1, -16>>,
      <<8580, 8580, 1, -1>>, <<9424, 9449, 1, -26>>,
      <<11312, 11359, 1, -48>>, <<11361, 11361, 1, -1>>,
      <<11365, 11365, 1, -10795>>, <<11366, 11366, 1, -10792>>,
      <<11368, 11372, 2, -1>>, <<11379, 11379, 1, -1>>,
      <<11382, 11382, 1, -1>>, <<11393, 11491, 2, -1>>,
      <<11500, 11502, 2, -1>>, <<11507, 11507, 1, -1>>,
      <<11520, 11557, 1, -7264>>, <<11559, 11559, 1, -7264>>,
      <<11565, 11565, 1, -7264>>, <<42561, 42605, 2, -1>>,
      <<42625, 42651, 2, -1>>, <<42787, 42799, 2, -1>>,
      <<42803, 42863, 2, -1>>, <<42874, 42876, 2, -1>>,
      <<42879, 42887, 2, -1>>, <<42892, 42892, 1, -1>>,
      <<42897, 42899, 2, -1>>, <<42900, 42900, 1, 48>>,
      <<42903, 42921, 2, -1>>, <<42933, 42947, 2, -1>>,
      <<42952, 42954, 2, -1>>, <<42961, 42961, 1, -1>>,
      <<42967, 42969, 2, -1>>, <<42998, 42998, 1, -1>>,
      <<43859, 43859, 1, -928>>, <<43888, 43967, 1, -38864>>,
      <<65345, 65370, 1, -32>>, <<66600, 66639, 1, -40>>,
      <<66776, 66811, 1, -40>>, <<66967, 67003, 2, -39>>,
      <<66968, 66976, 2, -39>>, <<66980, 66992, 2, -39>>,
      <<66996, 67000, 2, -39>>, <<67004, 67004, 1, -39>>,
      <<68800, 68850, 1, -64>>, <<71872, 71903, 1, -32>>,
      <<93792, 93823, 1, -32>>, <<125218, 125251, 1, -34>>
    >>

\* the code points whose upper case is several code points, as
\* <<code point, upper case>>: the sharp s 223 becomes SS
uppercase_special ==
    <<
      <<223, <<83, 83>>>>, <<329, <<700, 78>>>>, <<496, <<74, 780>>>>,
      <<912, <<921, 776, 769>>>>, <<944, <<933, 776, 769>>>>,
      <<1415, <<1333, 1362>>>>, <<7830, <<72, 817>>>>,
      <<7831, <<84, 776>>>>, <<7832, <<87, 778>>>>, <<7833, <<89, 778>>>>,
      <<7834, <<65, 702>>>>, <<8016, <<933, 787>>>>,
      <<8018, <<933, 787, 768>>>>, <<8020, <<933, 787, 769>>>>,
      <<8022, <<933, 787, 834>>>>, <<8064, <<7944, 921>>>>,
      <<8065, <<7945, 921>>>>, <<8066, <<7946, 921>>>>,
      <<8067, <<7947, 921>>>>, <<8068, <<7948, 921>>>>,
      <<8069, <<7949, 921>>>>, <<8070, <<7950, 921>>>>,
      <<8071, <<7951, 921>>>>, <<8072, <<7944, 921>>>>,
      <<8073, <<7945, 921>>>>, <<8074, <<7946, 921>>>>,
      <<8075, <<7947, 921>>>>, <<8076, <<7948, 921>>>>,
      <<8077, <<7949, 921>>>>, <<8078, <<7950, 921>>>>,
      <<8079, <<7951, 921>>>>, <<8080, <<7976, 921>>>>,
      <<8081, <<7977, 921>>>>, <<8082, <<7978, 921>>>>,
      <<8083, <<7979, 921>>>>, <<8084, <<7980, 921>>>>,
      <<8085, <<7981, 921>>>>, <<8086, <<7982, 921>>>>,
      <<8087, <<7983, 921>>>>, <<8088, <<7976, 921>>>>,
      <<8089, <<7977, 921>>>>, <<8090, <<7978, 921>>>>,
      <<8091, <<7979, 921>>>>, <<8092, <<7980, 921>>>>,
      <<8093, <<7981, 921>>>>, <<8094, <<7982, 921>>>>,
      <<8095, <<7983, 921>>>>, <<8096, <<8040, 921>>>>,
      <<8097, <<8041, 921>>>>, <<8098, <<8042, 921>>>>,
      <<8099, <<8043, 921>>>>, <<8100, <<8044, 921>>>>,
      <<8101, <<8045, 921>>>>, <<8102, <<8046, 921>>>>,
      <<8103, <<8047, 921>>>>, <<8104, <<8040, 921>>>>,
      <<8105, <<8041, 921>>>>, <<8106, <<8042, 921>>>>,
      <<8107, <<8043, 921>>>>, <<8108, <<8044, 921>>>>,
      <<8109, <<8045, 921>>>>, <<8110, <<8046, 921>>>>,
      <<8111, <<8047, 921>>>>, <<8114, <<8122, 921>>>>,
      <<8115, <<913, 921>>>>, <<8116, <<902, 921>>>>,
      <<8118, <<913, 834>>>>, <<8119, <<913, 834, 921>>>>,
      <<8124, <<913, 921>>>>, <<8130, <<8138, 921>>>>,
      <<8131, <<919, 921>>>>, <<8132, <<905, 921>>>>,
      <<8134, <<919, 834>>>>, <<8135, <<919, 834, 921>>>>,
      <<8140, <<919, 921>>>>, <<8146, <<921, 776, 768>>>>,
      <<8147, <<921, 776, 769>>>>, <<8150, <<921, 834>>>>,
      <<8151, <<921, 776, 834>>>>, <<8162, <<933, 776, 768>>>>,
      <<8163, <<933, 776, 769>>>>, <<8164, <<929, 787>>>>,
      <<8166, <<933, 834>>>>, <<8167, <<933, 776, 834>>>>,
      <<8178, <<8186, 921>>>>, <<8179, <<937, 921>>>>,
      <<8180, <<911, 921>>>>, <<8182, <<937, 834>>>>,
      <<8183, <<937, 834, 921>>>>, <<8188, <<937, 921>>>>,
      <<64256, <<70, 70>>>>, <<64257, <<70, 73>>>>, <<64258, <<70, 76>>>>,
      <<64259, <<70, 70, 73>>>>, <<64260, <<70, 70, 76>>>>,
      <<64261, <<83, 84>>>>, <<64262, <<83, 84>>>>,
      <<64275, <<1348, 1350>>>>, <<64276, <<1348, 1333>>>>,
      <<64277, <<1348, 1339>>>>, <<64278, <<1358, 1350>>>>,
      <<64279, <<1348, 1341>>>>
    >>

\* c is in the run r
in_run(c, r) == r[1] <= c /\ c <= r[2] /\ (c - r[1]) % r[3] = 0

\* the code points the two tables list
run_points ==
    UNION {{c \in uppercase_runs[k][1]..uppercase_runs[k][2] :
               in_run(c, uppercase_runs[k])} : k \in DOMAIN uppercase_runs}

special_points == {uppercase_special[k][1] : k \in DOMAIN uppercase_special}

\* str.upper() of one code point
upper_char(c) ==
    IF c \in special_points
    THEN uppercase_special[CHOOSE k \in DOMAIN uppercase_special :
                              uppercase_special[k][1] = c][2]
    ELSE IF c \in run_points
    THEN <<c + uppercase_runs[CHOOSE k \in DOMAIN uppercase_runs :
                                 in_run(c, uppercase_runs[k])][4]>>
    ELSE <<c>>

\* str.upper(): the upper case of every code point, one after the other
RECURSIVE upper(_)
upper(typed) ==
    IF typed = <<>> THEN <<>>
    ELSE upper_char(Head(typed)) \o upper(Tail(typed))

\* str.strip(): the whitespace at both ends goes
RECURSIVE strip(_)
strip(typed) ==
    IF typed = <<>> THEN <<>>
    ELSE IF Head(typed) \in whitespace THEN strip(Tail(typed))
    ELSE IF typed[Len(typed)] \in whitespace
    THEN strip(SubSeq(typed, 1, Len(typed) - 1))
    ELSE typed

\* the names of the members of an enum, spelled out
spelled(name) ==
    CASE name = "WORLD" -> <<87, 79, 82, 76, 68>>
      [] name = "LOCAL" -> <<76, 79, 67, 65, 76>>
      [] name = "BOTH" -> <<66, 79, 84, 72>>
      [] name = "DAY" -> <<68, 65, 89>>
      [] name = "WEEK" -> <<87, 69, 69, 75>>
      [] name = "MONTH" -> <<77, 79, 78, 84, 72>>
      [] name = "YEAR" -> <<89, 69, 65, 82>>

\* `pref in Enum.__members__` and Enum[pref]: <<member>> when pref names a
\* member, <<>> when it does not
member_named(members, pref) ==
    LET named == {m \in members : spelled(m) = pref}
    IN  IF named = {} THEN <<>> ELSE <<CHOOSE m \in named : TRUE>>

\* the store as it is, in the shape Loaded returns
StoreKept ==
    [id_counters |-> id_counters, users |-> users, realms |-> realms,
     campaigns |-> campaigns, events |-> events, characters |-> characters,
     current_user |-> current_user, raised |-> FALSE]

\* load(): FileNotFoundError leaves everything as it was
AfterLoad == IF file = NoFile THEN StoreKept ELSE Loaded(file[1])

(* timeline *)
TimeRangeType == {"DAY", "WEEK", "MONTH", "YEAR"}

\* variant: the hours counted as minutes
to_minutes_hours_unscaled(t) == t.day * 24 * 60 + t.hour + t.minute

to_minutes(t) == t.day * 24 * 60 + t.hour * 60 + t.minute

\* variant: the upper end of the window included
InWindow_inclusive_end(m, start, end) == start <= m /\ m <= end

\* the membership test of the collection loop
InWindow(m, start, end) == start <= m /\ m < end

WindowStart(anchor) == anchor.day * 24 * 60

WindowEnd(range_type, anchor) ==
    IF range_type = "DAY" THEN WindowStart(anchor) + 24 * 60
    ELSE IF range_type = "WEEK" THEN WindowStart(anchor) + 7 * 24 * 60
    ELSE IF range_type = "MONTH" THEN WindowStart(anchor) + 30 * 24 * 60
    ELSE WindowStart(anchor) + 365 * 24 * 60

\* the loop over camp.quest_event_ids: ids missing from the store skipped
RECURSIVE Collect(_, _, _, _)
Collect(ids, store, start, end) ==
    IF ids = <<>> THEN <<>>
    ELSE (IF Head(ids) \in DOMAIN store
             /\ InWindow(to_minutes(store[Head(ids)].start_time), start, end)
          THEN <<Head(ids)>> ELSE <<>>)
         \o Collect(Tail(ids), store, start, end)

\* variant: an event goes in front of the events with the same key
RECURSIVE InsertByStart_before_equal(_, _, _)
InsertByStart_before_equal(sorted, eid, store) ==
    IF sorted = <<>> THEN <<eid>>
    ELSE IF to_minutes(store[Head(sorted)].start_time)
               < to_minutes(store[eid].start_time)
         THEN <<Head(sorted)>>
              \o InsertByStart_before_equal(Tail(sorted), eid, store)
         ELSE <<eid>> \o sorted

\* one step of the stable sort: eid goes behind every event whose key is not
\* larger than its own
RECURSIVE InsertByStart(_, _, _)
InsertByStart(sorted, eid, store) ==
    IF sorted = <<>> THEN <<eid>>
    ELSE IF to_minutes(store[Head(sorted)].start_time)
               <= to_minutes(store[eid].start_time)
         THEN <<Head(sorted)>> \o InsertByStart(Tail(sorted), eid, store)
         ELSE <<eid>> \o sorted

\* collected.sort(key = start_time.to_minutes()), a stable sort
RECURSIVE SortByStart(_, _)
SortByStart(collected, store) ==
    IF collected = <<>> THEN <<>>
    ELSE InsertByStart(SortByStart(SubSeq(collected, 1, Len(collected) - 1),
                                   store),
                       collected[Len(collected)], store)

\* the events returned, as the sequence of their ids
get_campaign_events_by_range(store, c, range_type, anchor) ==
    SortByStart(Collect(c.quest_event_ids, store, WindowStart(anchor),
                        WindowEnd(range_type, anchor)), store)

\* __post_init__: the checks a WorldClockTime passes
ValidTime(t) ==
    /\ t.day >= 0
    /\ 0 <= t.hour /\ t.hour <= 23
    /\ 0 <= t.minute /\ t.minute <= 59

\* variant: a total of zero rejected too
plus_minutes_zero_rejected(t, delta) ==
    LET total == to_minutes(t) + delta IN
    IF total <= 0 THEN "ValueError"
    ELSE LET rem == total % (24 * 60)
             r == WorldClockTime(total \div (24 * 60), rem \div 60, rem % 60)
         IN  IF ValidTime(r) THEN <<r>> ELSE "ValueError"

\* variant: the day taken from delta alone, the carry out of the hours lost
plus_minutes_day_not_carried(t, delta) ==
    LET total == to_minutes(t) + delta IN
    IF total < 0 THEN "ValueError"
    ELSE LET rem == total % (24 * 60)
             r == WorldClockTime(t.day + delta \div (24 * 60),
                                 rem \div 60, rem % 60)
         IN  IF ValidTime(r) THEN <<r>> ELSE "ValueError"

\* "ValueError" when the call raises, <<r>> when it returns r
plus_minutes(t, delta) ==
    LET total == to_minutes(t) + delta IN
    IF total < 0 THEN "ValueError"
    ELSE LET rem == total % (24 * 60)
             r == WorldClockTime(total \div (24 * 60), rem \div 60, rem % 60)
         IN  IF ValidTime(r) THEN <<r>> ELSE "ValueError"

Pad2(n) == IF n < 10 THEN "0" \o ToString(n) ELSE ToString(n)

\* WorldClockTime.__str__
str_WorldClockTime(t) ==
    "Day " \o ToString(t.day) \o " " \o Pad2(t.hour) \o ":" \o Pad2(t.minute)

\* RealmTimeRule.to_local
to_local(time_rule, world_time) ==
    plus_minutes(world_time, time_rule.offset_minutes)

\* self.realms.get(rid): <<>> is None
realms_get(rid) ==
    LET found == SelectSeq(realms, LAMBDA r : r.realm_id = rid)
    IN  IF found = <<>> THEN <<>> ELSE <<found[1]>>

\* the line of one event, "ValueError" when to_local raises: local_str is
\* computed before time_display is looked at
TimelineLine(e, time_display) ==
    LET realm == realms_get(e.realm_id)
        realm_name == IF realm # <<>> THEN realm[1].name ELSE e.realm_id
        world_str == str_WorldClockTime(e.start_time)
        local == IF realm # <<>> THEN to_local(realm[1].time_rule, e.start_time)
                 ELSE <<e.start_time>>
    IN  IF local = "ValueError" THEN "ValueError"
        ELSE LET local_str == str_WorldClockTime(local[1])
                 t == IF time_display = "WORLD" THEN world_str
                      ELSE IF time_display = "LOCAL"
                      THEN local_str \o " (" \o realm_name \o ")"
                      ELSE world_str \o " | " \o local_str
                               \o " (" \o realm_name \o ")"
             IN  "- " \o e.event_id \o ": " \o e.name \o " @ " \o t

\* the print loop over the events returned, stopped by the first raise
RECURSIVE TimelineLines(_, _)
TimelineLines(eids, time_display) ==
    IF eids = <<>> THEN <<>>
    ELSE LET line == TimelineLine(events[Head(eids)], time_display)
         IN  IF line = "ValueError" THEN <<line>>
             ELSE <<line>> \o TimelineLines(Tail(eids), time_display)

TimelineHeader(c, r, anchor) ==
    "--- Timeline " \o r \o " for " \o c.name
        \o " (anchor " \o str_WorldClockTime(anchor) \o ") ---"

(* entry point *)
\* app.load() and then app.run() up to its menu: ensure_default_realm adds
\* the realm Earth when load left no realm; an exception raised by load
\* ends the program
main ==
    /\ pc = "start"
    /\ LET l == AfterLoad
           first == l.realms = <<>> /\ ~l.raised
           rid == "R" \o ToString(l.id_counters["realm"])
       IN  /\ users' = l.users
           /\ campaigns' = l.campaigns
           /\ events' = l.events
           /\ characters' = l.characters
           /\ current_user' = l.current_user
           /\ realms' = IF first THEN <<NewRealm(rid)>> ELSE l.realms
           /\ id_counters' = IF first
                             THEN [l.id_counters EXCEPT !["realm"] = @ + 1]
                             ELSE l.id_counters
           /\ pc' = IF l.raised THEN "raised" ELSE "main"
    /\ UNCHANGED <<camp, ev, file, edits>>
    /\ UNCHANGED unread

(* main menu *)
create_user(username) ==
    /\ pc = "main"
    /\ username \notin DOMAIN users
    /\ users' = users @@ (username :> NewUser(username, realms[1].realm_id))
    /\ current_user' = username
    /\ UNCHANGED others
    /\ UNCHANGED <<realms, campaigns, events, id_counters, pc, camp, ev, last>>

login(chosen) ==
    /\ pc = "main"
    /\ chosen \in DOMAIN users
    /\ current_user' = chosen
    /\ UNCHANGED others
    /\ UNCHANGED <<users, realms, campaigns, events, id_counters, pc, camp, ev, last>>

menu_campaigns ==
    /\ pc = "main"
    /\ require_login
    /\ pc' = "menu_campaigns"
    /\ UNCHANGED others
    /\ UNCHANGED <<users, realms, campaigns, events, id_counters, current_user,
                   camp, ev, last>>

menu_campaigns_back ==
    /\ pc = "menu_campaigns"
    /\ pc' = "main"
    /\ UNCHANGED others
    /\ UNCHANGED <<users, realms, campaigns, events, id_counters, current_user,
                   camp, ev, last>>

(* main menu: realms, settings, characters, save, load *)
menu_realms ==
    /\ pc = "main"
    /\ pc' = "menu_realms"
    /\ UNCHANGED others
    /\ UNCHANGED <<users, realms, campaigns, events, id_counters, current_user,
                   camp, ev, last>>

menu_realms_back ==
    /\ pc = "menu_realms"
    /\ pc' = "main"
    /\ UNCHANGED others
    /\ UNCHANGED <<users, realms, campaigns, events, id_counters, current_user,
                   camp, ev, last>>

create_realm(name, offset) ==
    /\ pc = "menu_realms"
    /\ realms' = Append(realms, CreatedRealm(new_id("realm", "R"), name, offset))
    /\ id_counters' = bump("realm")
    /\ edits' = edits + 1
    /\ UNCHANGED <<users, campaigns, events, current_user, pc, camp, ev,
                   characters, file>>
    /\ UNCHANGED unread

\* without a login edit_settings prints and returns
edit_settings ==
    /\ pc = "main"
    /\ require_login
    /\ pc' = "edit_settings"
    /\ UNCHANGED others
    /\ UNCHANGED <<users, realms, campaigns, events, id_counters, current_user,
                   camp, ev, last>>

\* choice 1 with a realm picked
edit_settings_current_realm(rid) ==
    /\ pc = "edit_settings"
    /\ rid \in RealmIds
    /\ users' = [users EXCEPT ![current_user].settings.current_realm_id = rid]
    /\ edits' = edits + 1
    /\ UNCHANGED <<realms, campaigns, events, id_counters, current_user, pc,
                   camp, ev, characters, file>>
    /\ UNCHANGED unread

\* choice 2: `input().strip() or user.settings.theme`
edit_settings_theme(typed) ==
    /\ pc = "edit_settings"
    /\ users' = [users EXCEPT ![current_user].settings.theme =
                    IF typed = "" THEN @ ELSE typed]
    /\ edits' = edits + 1
    /\ UNCHANGED <<realms, campaigns, events, id_counters, current_user, pc,
                   camp, ev, characters, file>>
    /\ UNCHANGED unread

\* choice 3: the entry, stripped and upper-cased, is stored when it names a
\* member, else "Invalid." is printed
edit_settings_time_display(typed) ==
    /\ pc = "edit_settings"
    /\ LET pref == upper(strip(typed))
           named == member_named(TimeDisplayPreference, pref)
       IN  users' = [users EXCEPT ![current_user].settings.time_display =
                        IF named # <<>> THEN named[1] ELSE @]
    /\ edits' = edits + 1
    /\ UNCHANGED <<realms, campaigns, events, id_counters, current_user, pc,
                   camp, ev, characters, file>>
    /\ UNCHANGED unread

edit_settings_back ==
    /\ pc = "edit_settings"
    /\ pc' = "main"
    /\ UNCHANGED others
    /\ UNCHANGED <<users, realms, campaigns, events, id_counters, current_user,
                   camp, ev, last>>

menu_characters ==
    /\ pc = "main"
    /\ pc' = "menu_characters"
    /\ UNCHANGED others
    /\ UNCHANGED <<users, realms, campaigns, events, id_counters, current_user,
                   camp, ev, last>>

menu_characters_back ==
    /\ pc = "menu_characters"
    /\ pc' = "main"
    /\ UNCHANGED others
    /\ UNCHANGED <<users, realms, campaigns, events, id_counters, current_user,
                   camp, ev, last>>

\* without a login create_character prints and returns; the prompts are
\* left empty (name = cid, class Adventurer) and the level is 1
create_character ==
    /\ pc = "menu_characters"
    /\ require_login
    /\ LET cid == new_id("char", "C") IN
       /\ characters' = characters @@ (cid :> NewCharacter(cid))
       /\ users' = [users EXCEPT ![current_user].character_ids = Append(@, cid)]
    /\ id_counters' = bump("char")
    /\ edits' = edits + 1
    /\ UNCHANGED <<realms, campaigns, events, current_user, pc, camp, ev, file>>
    /\ UNCHANGED unread

\* the character picked and the script typed in its inventory loop
edit_character_inventory(cid, script) ==
    /\ pc = "menu_characters"
    /\ require_login
    /\ cid \in Range(OfferedCharacters(users, characters, current_user))
    /\ characters' = [characters EXCEPT
                        ![cid].inventory = EditInventory(@, script)]
    /\ edits' = edits + 1
    /\ UNCHANGED <<users, realms, campaigns, events, id_counters, current_user,
                   pc, camp, ev, file>>
    /\ UNCHANGED unread

save ==
    /\ pc = "main"
    /\ file' = <<payload>>
    /\ edits' = edits + 1
    /\ UNCHANGED <<users, realms, campaigns, events, id_counters, current_user,
                   pc, camp, ev, characters>>
    /\ UNCHANGED unread

\* an exception raised inside load leaves run and ends the program
load ==
    /\ pc = "main"
    /\ LET l == AfterLoad IN
       /\ id_counters' = l.id_counters
       /\ users' = l.users
       /\ realms' = l.realms
       /\ campaigns' = l.campaigns
       /\ events' = l.events
       /\ characters' = l.characters
       /\ current_user' = l.current_user
       /\ pc' = IF l.raised THEN "raised" ELSE pc
    /\ edits' = edits + 1
    /\ UNCHANGED <<camp, ev, file>>
    /\ UNCHANGED unread

(* campaigns menu *)
create_campaign ==
    /\ pc = "menu_campaigns"
    /\ require_login
    /\ LET cid == new_id("campaign", "P") IN
       /\ campaigns' = campaigns @@ (cid :> NewCampaign(cid, current_user))
       /\ users' = [users EXCEPT ![current_user].campaign_ids = Append(@, cid)]
    /\ id_counters' = bump("campaign")
    /\ UNCHANGED others
    /\ UNCHANGED <<realms, events, current_user, pc, camp, ev, last>>

edit_campaign(cid) ==
    /\ pc = "menu_campaigns"
    /\ require_login
    /\ cid \in pick_campaign_i_can_edit(current_user)
    /\ pc' = "edit_campaign"
    /\ camp' = cid
    /\ UNCHANGED others
    /\ UNCHANGED <<users, realms, campaigns, events, id_counters, current_user,
                   ev, last>>

(* edit_campaign loop *)
\* choice 1: `input().strip() or camp.name`
edit_campaign_rename(typed) ==
    /\ pc = "edit_campaign"
    /\ campaigns' = [campaigns EXCEPT ![camp].name =
                        IF typed = "" THEN @ ELSE typed]
    /\ edits' = edits + 1
    /\ UNCHANGED <<users, realms, events, id_counters, current_user, pc, camp,
                   ev, characters, file>>
    /\ UNCHANGED unread

edit_campaign_set_visibility(v) ==
    /\ pc = "edit_campaign"
    /\ campaigns' = [campaigns EXCEPT ![camp].visibility = v]
    /\ UNCHANGED others
    /\ UNCHANGED <<users, realms, events, id_counters, current_user, pc, camp,
                   ev, last>>

edit_campaign_archive ==
    /\ pc = "edit_campaign"
    /\ campaigns' = [campaigns EXCEPT ![camp].archived = ~@]
    /\ UNCHANGED others
    /\ UNCHANGED <<users, realms, events, id_counters, current_user, pc, camp,
                   ev, last>>

share_campaign(to_user, p) ==
    /\ pc = "edit_campaign"
    /\ to_user \in DOMAIN users
    /\ campaigns' = [campaigns EXCEPT ![camp] = Campaign_share_with(@, to_user, p)]
    /\ UNCHANGED others
    /\ UNCHANGED <<users, realms, events, id_counters, current_user, pc, camp,
                   ev, last>>

unshare_campaign(to_user) ==
    /\ pc = "edit_campaign"
    /\ campaigns' = [campaigns EXCEPT ![camp] = Campaign_unshare_with(@, to_user)]
    /\ UNCHANGED others
    /\ UNCHANGED <<users, realms, events, id_counters, current_user, pc, camp,
                   ev, last>>

manage_events ==
    /\ pc = "edit_campaign"
    /\ require_login
    /\ can_edit(campaigns[camp], current_user)
    /\ pc' = "manage_events"
    /\ UNCHANGED others
    /\ UNCHANGED <<users, realms, campaigns, events, id_counters, current_user,
                   camp, ev, last>>

\* view_timeline up to its two early returns: with no login or no view
\* permission it prints and returns at once
view_timeline ==
    /\ pc = "edit_campaign"
    /\ require_login
    /\ can_view(campaigns[camp], current_user)
    /\ pc' = "view_timeline"
    /\ UNCHANGED others
    /\ UNCHANGED <<users, realms, campaigns, events, id_counters, current_user,
                   camp, ev, last>>

\* the rest of view_timeline: the range typed, the anchor, the query and the
\* print loop.  An entry that names no range returns; to_local raising
\* ValueError is caught nowhere and ends the program.
view_timeline_return(typed, anchor) ==
    /\ pc = "view_timeline"
    /\ LET r == member_named(TimeRangeType, upper(strip(typed)))
           found == IF r = <<>> THEN <<>>
                    ELSE get_campaign_events_by_range(events, campaigns[camp],
                                                      r[1], anchor)
           lines == TimelineLines(found,
                                  users[current_user].settings.time_display)
       IN  pc' = IF lines # <<>> /\ lines[Len(lines)] = "ValueError"
                 THEN "raised" ELSE "edit_campaign"
    /\ UNCHANGED others
    /\ UNCHANGED <<users, realms, campaigns, events, id_counters, current_user,
                   camp, ev, last>>

edit_campaign_back ==
    /\ pc = "edit_campaign"
    /\ pc' = "menu_campaigns"
    /\ camp' = None
    /\ UNCHANGED others
    /\ UNCHANGED <<users, realms, campaigns, events, id_counters, current_user,
                   ev, last>>

(* manage_events loop *)
\* rid is the realm picked, or None when the picker is cancelled: the id is
\* drawn before the picker is shown.  pscript and iscript are what is typed
\* in the participants loop and the inventory-changes loop that end the
\* handler.
add_event_to_campaign(name, start, end, rid, pscript, iscript) ==
    /\ pc = "manage_events"
    /\ id_counters' = bump("event")
    /\ IF rid = None
       THEN /\ pscript = <<>> /\ iscript = <<>>
            /\ UNCHANGED <<events, campaigns, characters>>
       ELSE LET eid == new_id("event", "E")
                e == QuestEvent(eid, IF name = "" THEN eid ELSE name,
                                start, end, rid)
                r == EditEventLoops(e, users, characters, current_user,
                                    pscript, iscript)
            IN  /\ r.ok
                /\ events' = events @@ (eid :> r.e)
                /\ campaigns' = [campaigns EXCEPT
                                   ![camp].quest_event_ids = Append(@, eid)]
                /\ characters' = r.characters
    /\ edits' = edits + (IF pscript = <<>> /\ iscript = <<>> THEN 0 ELSE 1)
    /\ UNCHANGED <<users, realms, current_user, pc, camp, ev, file>>
    /\ UNCHANGED unread

remove_event_from_campaign(eid) ==
    /\ pc = "manage_events"
    /\ eid \in pick_event(campaigns[camp])
    /\ campaigns' = [campaigns EXCEPT
                       ![camp].quest_event_ids = RemoveFirst(@, eid)]
    /\ events' = [k \in DOMAIN events \ {eid} |-> events[k]]
    /\ UNCHANGED others
    /\ UNCHANGED <<users, realms, id_counters, current_user, pc, camp, ev, last>>

edit_event(eid) ==
    /\ pc = "manage_events"
    /\ eid \in pick_event(campaigns[camp])
    /\ pc' = "edit_event"
    /\ ev' = eid
    /\ UNCHANGED others
    /\ UNCHANGED <<users, realms, campaigns, events, id_counters, current_user,
                   camp, last>>

manage_events_back ==
    /\ pc = "manage_events"
    /\ pc' = "edit_campaign"
    /\ UNCHANGED others
    /\ UNCHANGED <<users, realms, campaigns, events, id_counters, current_user,
                   camp, ev, last>>

(* edit_event loop *)
share_event(to_user, p) ==
    /\ pc = "edit_event"
    /\ to_user \in DOMAIN users
    /\ events' = [events EXCEPT ![ev] = QuestEvent_share_with(@, to_user, p)]
    /\ UNCHANGED others
    /\ UNCHANGED <<users, realms, campaigns, id_counters, current_user, pc,
                   camp, ev, last>>

unshare_event(to_user) ==
    /\ pc = "edit_event"
    /\ events' = [events EXCEPT ![ev] = QuestEvent_unshare_with(@, to_user)]
    /\ UNCHANGED others
    /\ UNCHANGED <<users, realms, campaigns, id_counters, current_user, pc,
                   camp, ev, last>>

\* choice 1: `input().strip() or e.name`
edit_event_rename(typed) ==
    /\ pc = "edit_event"
    /\ events' = [events EXCEPT ![ev].name = IF typed = "" THEN @ ELSE typed]
    /\ edits' = edits + 1
    /\ UNCHANGED <<users, realms, campaigns, id_counters, current_user, pc,
                   camp, ev, characters, file>>
    /\ UNCHANGED unread

\* choice 2
edit_event_start_time(t) ==
    /\ pc = "edit_event"
    /\ events' = [events EXCEPT ![ev].start_time = t]
    /\ edits' = edits + 1
    /\ UNCHANGED <<users, realms, campaigns, id_counters, current_user, pc,
                   camp, ev, characters, file>>
    /\ UNCHANGED unread

\* choice 3: y sets the time entered, anything else clears it
edit_event_end_time(end) ==
    /\ pc = "edit_event"
    /\ events' = [events EXCEPT ![ev].end_time = end]
    /\ edits' = edits + 1
    /\ UNCHANGED <<users, realms, campaigns, id_counters, current_user, pc,
                   camp, ev, characters, file>>
    /\ UNCHANGED unread

\* choice 4 with a realm picked
edit_event_change_realm(rid) ==
    /\ pc = "edit_event"
    /\ rid \in RealmIds
    /\ events' = [events EXCEPT ![ev].realm_id = rid]
    /\ edits' = edits + 1
    /\ UNCHANGED <<users, realms, campaigns, id_counters, current_user, pc,
                   camp, ev, characters, file>>
    /\ UNCHANGED unread

\* choice 5: _edit_event_participants on the event held
edit_event_participants(pscript) ==
    /\ pc = "edit_event"
    /\ LET r == EditEventLoops(events[ev], users, characters, current_user,
                               pscript, <<>>)
       IN  /\ r.ok
           /\ events' = [events EXCEPT ![ev] = r.e]
    /\ edits' = edits + 1
    /\ UNCHANGED <<users, realms, campaigns, id_counters, current_user, pc,
                   camp, ev, characters, file>>
    /\ UNCHANGED unread

\* choice 8: _edit_event_inventory_changes on the event held
edit_event_inventory_changes(iscript) ==
    /\ pc = "edit_event"
    /\ LET r == EditInventoryChanges(events[ev], characters, iscript)
       IN  /\ r.ok
           /\ events' = [events EXCEPT ![ev] = r.e]
           /\ characters' = r.characters
    /\ edits' = edits + 1
    /\ UNCHANGED <<users, realms, campaigns, id_counters, current_user, pc,
                   camp, ev, file>>
    /\ UNCHANGED unread

edit_event_back ==
    /\ pc = "edit_event"
    /\ pc' = "manage_events"
    /\ ev' = None
    /\ UNCHANGED others
    /\ UNCHANGED <<users, realms, campaigns, events, id_counters, current_user,
                   camp, last>>

Edit == edits < MaxEdits

\* the size of the store, in users and campaigns
StoreSize == Cardinality(DOMAIN users) + Cardinality(DOMAIN campaigns)

Next ==
    \/ main
    \/ \E username \in TypedNames : create_user(username)
    \/ \E chosen \in DOMAIN users : login(chosen)
    \/ menu_realms
    \/ menu_realms_back
    \/ \E name \in RealmNames, offset \in RealmOffsets :
          /\ Edit
          /\ id_counters["realm"] <= MaxRealms
          /\ create_realm(name, offset)
    \/ edit_settings
    \/ \E rid \in RealmIds : Edit /\ edit_settings_current_realm(rid)
    \/ \E typed \in Themes : Edit /\ edit_settings_theme(typed)
    \/ \E typed \in TypedPreferences : Edit /\ edit_settings_time_display(typed)
    \/ edit_settings_back
    \/ menu_characters
    \/ menu_characters_back
    \/ Edit /\ id_counters["char"] <= MaxChars /\ create_character
    \/ \E cid \in DOMAIN characters, k \in DOMAIN InventoryScripts :
          Edit /\ edit_character_inventory(cid, InventoryScripts[k])
    \/ Edit /\ StoreSize <= MaxSaved /\ save
    \/ Edit /\ load
    \/ menu_campaigns
    \/ menu_campaigns_back
    \/ id_counters["campaign"] <= MaxCampaigns /\ create_campaign
    \/ \E cid \in DOMAIN campaigns : edit_campaign(cid)
    \/ \E typed \in CampaignNames : Edit /\ edit_campaign_rename(typed)
    \/ \E v \in Visibility : edit_campaign_set_visibility(v)
    \/ edit_campaign_archive
    \/ \E to_user \in TypedNames, p \in PermissionLevel : share_campaign(to_user, p)
    \/ \E to_user \in TypedNames : unshare_campaign(to_user)
    \/ manage_events
    \/ view_timeline
    \/ \E typed \in TypedRanges, anchor \in Anchors :
          view_timeline_return(typed, anchor)
    \/ edit_campaign_back
    \/ \E rid \in RealmIds \cup {None}, k \in DOMAIN AddEventScripts :
          /\ id_counters["event"] <= MaxEvents
          /\ k > 1 => Edit
          /\ add_event_to_campaign("", WorldClockTime(0, 0, 0), NoEnd, rid,
                                   AddEventScripts[k].p, AddEventScripts[k].i)
    \/ \E eid \in DOMAIN events : remove_event_from_campaign(eid)
    \/ \E eid \in DOMAIN events : edit_event(eid)
    \/ manage_events_back
    \/ \E typed \in EventNames : Edit /\ edit_event_rename(typed)
    \/ \E t \in EventTimes : Edit /\ edit_event_start_time(t)
    \/ \E end \in {NoEnd} \cup {<<t>> : t \in EventTimes} :
          Edit /\ edit_event_end_time(end)
    \/ \E rid \in RealmIds : Edit /\ edit_event_change_realm(rid)
    \/ \E k \in DOMAIN ParticipantsScripts :
          Edit /\ edit_event_participants(ParticipantsScripts[k])
    \/ \E to_user \in TypedNames, p \in PermissionLevel : share_event(to_user, p)
    \/ \E to_user \in TypedNames : unshare_event(to_user)
    \/ \E k \in DOMAIN ChangesScripts :
          Edit /\ edit_event_inventory_changes(ChangesScripts[k])
    \/ edit_event_back

Spec == Init /\ [][Next]_vars

(***************************************************************************)
(* Properties of the menu loops (checked under Spec)                       *)
(***************************************************************************)
\* The only call of edit_event is in the manage_events loop, the only call
\* of manage_events and of view_timeline is in the edit_campaign loop, and
\* edit_campaign takes its campaign from pick_campaign_i_can_edit.  A
\* session at the main menu or the campaigns menu therefore reaches
\* edit_event on eid as username exactly through these gates:
EditEventOffered(username, eid) ==
    \E cid \in pick_campaign_i_can_edit(username) :
        /\ can_edit(campaigns[cid], username)
        /\ eid \in pick_event(campaigns[cid])

\* and view_timeline of cid through these:
TimelineOffered(username, cid) ==
    /\ cid \in pick_campaign_i_can_edit(username)
    /\ can_view(campaigns[cid], username)

AtTopMenus == pc \in {"main", "menu_campaigns"}

\* C9: a logged-in user who holds a direct COLLABORATIVE Share on an event
\* of a campaign that resolves to no access for them can reach edit_event
\* on that event through the menus.
C9_DirectEventShareReachesEdit ==
    \A cid \in DOMAIN campaigns, eid \in DOMAIN events :
        (/\ AtTopMenus
         /\ require_login
         /\ eid \in Range(campaigns[cid].quest_event_ids)
         /\ ShareLevel(events[eid].shares, current_user) = "COLLABORATIVE"
         /\ Campaign_get_permission(campaigns[cid], current_user) = None)
        => EditEventOffered(current_user, eid)

\* C10: for a logged-in user every campaign they can view (VIEW_ONLY
\* included) is reachable through the menus up to view_timeline.
C10_ViewableCampaignReachesTimeline ==
    \A cid \in DOMAIN campaigns :
        (/\ AtTopMenus
         /\ require_login
         /\ cid \in pick_campaign_i_can_view(current_user))
        => TimelineOffered(current_user, cid)

\* the edit loops are entered only through the gates above: whoever is in
\* manage_events or edit_event could edit the campaign when they came in,
\* and nothing in those two loops changes the campaign's permissions
GatesHold ==
    /\ pc \in {"manage_events", "edit_event"}
          => (require_login /\ can_edit(campaigns[camp], current_user))
    /\ pc = "edit_event" => ev \in pick_event(campaigns[camp])
    /\ pc = "view_timeline"
          => (require_login /\ can_view(campaigns[camp], current_user))

(***************************************************************************)
(* The handlers of GuildQuestApp called one at a time on the stores, the   *)
(* campaign or event they act on passed as an argument as the menu loops   *)
(* pass it.  Each records itself in last (op and target) and in issued     *)
(* (the ids drawn), and clears output, which holds what the most recent    *)
(* handler printed or returned.                                            *)
(***************************************************************************)
\* cap on the event id counter where events are added, removed and listed
MaxListed == 2
\* cap on the campaign id counter where events are spread over campaigns
MaxOwned == 2

Handler(op, target) == Call(op, target, None, None, None)

\* the record _new_id leaves behind: counter value used, id returned
Issue(kind, prefix) ==
    [issued EXCEPT ![kind] = Append(@, [n |-> id_counters[kind],
                                        id |-> new_id(kind, prefix)])]

\* keys of a store in insertion order: ids are inserted as they are drawn
RECURSIVE KeysUpTo(_, _, _)
KeysUpTo(store, prefix, n) ==
    IF n = 0 THEN <<>>
    ELSE LET id == prefix \o ToString(n) IN
         IF id \in DOMAIN store
         THEN Append(KeysUpTo(store, prefix, n - 1), id)
         ELSE KeysUpTo(store, prefix, n - 1)

EventKeys == KeysUpTo(events, "E", id_counters["event"] - 1)

\* the matching entries of one event, in share-list order
RECURSIVE SharedEntries(_, _, _)
SharedEntries(eid, shares, username) ==
    IF shares = <<>> THEN <<>>
    ELSE (IF Head(shares).shared_with_user = username
          THEN <<[event_id |-> eid, perm |-> Head(shares).permission]>>
          ELSE <<>>)
         \o SharedEntries(eid, Tail(shares), username)

RECURSIVE FoundIn(_, _)
FoundIn(keys, username) ==
    IF keys = <<>> THEN <<>>
    ELSE SharedEntries(Head(keys), events[Head(keys)].shares, username)
         \o FoundIn(Tail(keys), username)

\* variant: the username comparison dropped, every share of every event found
RECURSIVE FoundAll(_)
FoundAll(keys) ==
    IF keys = <<>> THEN <<>>
    ELSE [i \in 1..Len(events[Head(keys)].shares) |->
             [event_id |-> Head(keys),
              perm |-> events[Head(keys)].shares[i].permission]]
         \o FoundAll(Tail(keys))

list_events_shared_with_me_any_user(username) == FoundAll(EventKeys)

\* the (event, permission) pairs list_events_shared_with_me prints
list_events_shared_with_me(username) == FoundIn(EventKeys, username)

do_ensure_default_realm ==
    /\ pc = "call"
    /\ IF realms = <<>>
       THEN /\ realms' = <<NewRealm(new_id("realm", "R"))>>
            /\ id_counters' = bump("realm")
            /\ issued' = Issue("realm", "R")
       ELSE UNCHANGED <<realms, id_counters, issued>>
    /\ last' = Handler("ensure_default_realm", None)
    /\ output' = None
    /\ UNCHANGED <<users, campaigns, events, current_user, pc, camp, ev,
                   characters, file, input, app, edits>>

\* create_user runs ensure_default_realm before it reads the first realm
do_create_user(username) ==
    /\ pc = "call"
    /\ username \notin DOMAIN users
    /\ IF realms = <<>>
       THEN /\ realms' = <<NewRealm(new_id("realm", "R"))>>
            /\ id_counters' = bump("realm")
            /\ issued' = Issue("realm", "R")
       ELSE UNCHANGED <<realms, id_counters, issued>>
    /\ users' = users @@ (username :> NewUser(username, realms'[1].realm_id))
    /\ current_user' = username
    /\ last' = Handler("create_user", username)
    /\ output' = None
    /\ UNCHANGED <<campaigns, events, pc, camp, ev, characters, file, input, app, edits>>

do_login(chosen) ==
    /\ pc = "call"
    /\ chosen \in DOMAIN users
    /\ current_user' = chosen
    /\ last' = Handler("login", chosen)
    /\ output' = None
    /\ UNCHANGED <<users, realms, campaigns, events, id_counters, pc, camp, ev,
                   characters, issued, file, input, app, edits>>

do_create_realm ==
    /\ pc = "call"
    /\ realms' = Append(realms, CreatedRealm(new_id("realm", "R"), "", 0))
    /\ id_counters' = bump("realm")
    /\ issued' = Issue("realm", "R")
    /\ last' = Handler("create_realm", new_id("realm", "R"))
    /\ output' = None
    /\ UNCHANGED <<users, campaigns, events, current_user, pc, camp, ev,
                   characters, file, input, app, edits>>

do_create_character ==
    /\ pc = "call"
    /\ require_login
    /\ LET cid == new_id("char", "C") IN
       /\ characters' = characters @@ (cid :> NewCharacter(cid))
       /\ users' = [users EXCEPT ![current_user].character_ids = Append(@, cid)]
    /\ id_counters' = bump("char")
    /\ issued' = Issue("char", "C")
    /\ last' = Handler("create_character", new_id("char", "C"))
    /\ output' = None
    /\ UNCHANGED <<realms, campaigns, events, current_user, pc, camp, ev,
                   file, input, app, edits>>

do_create_campaign ==
    /\ pc = "call"
    /\ require_login
    /\ LET cid == new_id("campaign", "P") IN
       /\ campaigns' = campaigns @@ (cid :> NewCampaign(cid, current_user))
       /\ users' = [users EXCEPT ![current_user].campaign_ids = Append(@, cid)]
    /\ id_counters' = bump("campaign")
    /\ issued' = Issue("campaign", "P")
    /\ last' = Handler("create_campaign", new_id("campaign", "P"))
    /\ output' = None
    /\ UNCHANGED <<realms, events, current_user, pc, camp, ev, characters,
                   file, input, app, edits>>

do_set_visibility(cid, v) ==
    /\ pc = "call"
    /\ cid \in DOMAIN campaigns
    /\ campaigns' = [campaigns EXCEPT ![cid].visibility = v]
    /\ last' = Handler("set_visibility", cid)
    /\ output' = None
    /\ UNCHANGED <<users, realms, events, id_counters, current_user, pc, camp,
                   ev, characters, issued, file, input, app, edits>>

\* rid is the realm picked, or None when the realm picker is cancelled;
\* pscript and iscript are what is typed in the participants loop and the
\* inventory-changes loop that end the handler
do_add_event_to_campaign(cid, rid, pscript, iscript) ==
    /\ pc = "call"
    /\ cid \in DOMAIN campaigns
    /\ id_counters' = bump("event")
    /\ issued' = Issue("event", "E")
    /\ IF rid = None
       THEN /\ pscript = <<>> /\ iscript = <<>>
            /\ UNCHANGED <<events, campaigns, characters>>
       ELSE LET eid == new_id("event", "E")
                r == EditEventLoops(NewQuestEvent(eid, rid), users, characters,
                                    current_user, pscript, iscript)
            IN  /\ r.ok
                /\ events' = events @@ (eid :> r.e)
                /\ campaigns' = [campaigns EXCEPT
                                   ![cid].quest_event_ids = Append(@, eid)]
                /\ characters' = r.characters
    /\ last' = Handler(IF rid = None THEN "add_event_to_campaign cancelled"
                       ELSE "add_event_to_campaign", cid)
    /\ output' = None
    /\ UNCHANGED <<users, realms, current_user, pc, camp, ev, file, input, app,
                   edits>>

do_remove_event_from_campaign(cid, eid) ==
    /\ pc = "call"
    /\ cid \in DOMAIN campaigns
    /\ eid \in pick_event(campaigns[cid])
    /\ campaigns' = [campaigns EXCEPT
                       ![cid].quest_event_ids = RemoveFirst(@, eid)]
    /\ events' = [k \in DOMAIN events \ {eid} |-> events[k]]
    /\ last' = Handler("remove_event_from_campaign", eid)
    /\ output' = None
    /\ UNCHANGED <<users, realms, id_counters, current_user, pc, camp, ev,
                   characters, issued, file, input, app, edits>>

do_share_event(eid, to_user, p) ==
    /\ pc = "call"
    /\ eid \in DOMAIN events
    /\ to_user \in DOMAIN users
    /\ events' = [events EXCEPT ![eid] = QuestEvent_share_with(@, to_user, p)]
    /\ last' = Handler("share_event", eid)
    /\ output' = None
    /\ UNCHANGED <<users, realms, campaigns, id_counters, current_user, pc,
                   camp, ev, characters, issued, file, input, app, edits>>

do_unshare_event(eid, to_user) ==
    /\ pc = "call"
    /\ eid \in DOMAIN events
    /\ events' = [events EXCEPT ![eid] = QuestEvent_unshare_with(@, to_user)]
    /\ last' = Handler("unshare_event", eid)
    /\ output' = None
    /\ UNCHANGED <<users, realms, campaigns, id_counters, current_user, pc,
                   camp, ev, characters, issued, file, input, app, edits>>

do_list_events_shared_with_me ==
    /\ pc = "call"
    /\ require_login
    /\ output' = list_events_shared_with_me(current_user)
    /\ last' = Handler("list_events_shared_with_me", current_user)
    /\ UNCHANGED <<users, realms, campaigns, events, id_counters, current_user,
                   pc, camp, ev, characters, issued, file, input, app, edits>>

(***************************************************************************)
(* SpecList: a store holding two users and one PRIVATE campaign of the     *)
(* first user; events are added to it, shared, unshared and removed, the   *)
(* session changes user, and the shared-events listing is printed.         *)
(***************************************************************************)
\* the campaign's owner and one other user
ListUsers == {NamePool[1], NamePool[2]}

\* the ids drawn while the store of InitList was built
IssuedAtStart ==
    [NoneIssued EXCEPT !.realm = <<[n |-> 1, id |-> "R1"]>>,
                       !.campaign = <<[n |-> 1, id |-> "P1"]>>]

InitList ==
    /\ users = [u \in ListUsers |->
                  IF u = NamePool[1]
                  THEN [NewUser(u, "R1") EXCEPT !.campaign_ids = <<"P1">>]
                  ELSE NewUser(u, "R1")]
    /\ realms = <<NewRealm("R1")>>
    /\ campaigns = ("P1" :> NewCampaign("P1", NamePool[1]))
    /\ events = <<>>
    /\ id_counters = [realm |-> 2, campaign |-> 2, event |-> 1, char |-> 1]
    /\ current_user = NamePool[1]
    /\ pc = "call"
    /\ camp = None
    /\ ev = None
    /\ last = NoCall
    /\ app = None
    /\ edits = 0
    /\ characters = <<>>
    /\ issued = IssuedAtStart
    /\ file = NoFile
    /\ input = None
    /\ output = None

NextList ==
    \/ \E chosen \in DOMAIN users : do_login(chosen)
    \/ \E cid \in DOMAIN campaigns, rid \in RealmIds \cup {None} :
          /\ id_counters["event"] <= MaxListed
          /\ do_add_event_to_campaign(cid, rid, <<>>, <<>>)
    \/ \E cid \in DOMAIN campaigns, eid \in DOMAIN events :
          do_remove_event_from_campaign(cid, eid)
    \/ \E eid \in DOMAIN events, to_user \in ListUsers, p \in PermissionLevel :
          do_share_event(eid, to_user, p)
    \/ \E eid \in DOMAIN events, to_user \in ListUsers :
          do_unshare_event(eid, to_user)
    \/ do_list_events_shared_with_me

SpecList == InitList /\ [][NextList]_vars

\* C11: the listing holds exactly one line per event of the store that has
\* a Share for the current user, carrying that Share's permission, whatever
\* the user's permission on the campaign is; an event removed from its
\* campaign has left the store and is not listed.
Listed == {output[i] : i \in 1..Len(output)}

C11_ListsExactlySharedEvents ==
    (last.op = "list_events_shared_with_me") =>
        /\ Listed = UNION {{[event_id |-> eid,
                               perm |-> events[eid].shares[i].permission] :
                                 i \in {j \in 1..Len(events[eid].shares) :
                                     events[eid].shares[j].shared_with_user
                                        = current_user}} :
                            eid \in DOMAIN events}
        /\ Len(output) = Cardinality(Listed)
        /\ \A l \in Listed :
              \E cid \in DOMAIN campaigns :
                  l.event_id \in Range(campaigns[cid].quest_event_ids)

C11_NotListedOnceRemoved ==
    (last'.op = "remove_event_from_campaign") =>
        /\ last'.target \notin DOMAIN events'
        /\ \A i \in 1..Len(list_events_shared_with_me(current_user)') :
              list_events_shared_with_me(current_user)'[i].event_id # last'.target

C11_SharedWithMeListing ==
    []C11_ListsExactlySharedEvents /\ [][C11_NotListedOnceRemoved]_vars

\* the listing shows an event the user may edit by a direct Share while the
\* campaign resolves to no access for them, after another event was removed
C11_Witness ==
    /\ last.op = "list_events_shared_with_me"
    /\ \E l \in Listed : l.perm = "COLLABORATIVE"
    /\ \A cid \in DOMAIN campaigns :
          Campaign_get_permission(campaigns[cid], current_user) = None
    /\ id_counters["event"] > 2
    /\ Cardinality(DOMAIN events) = 1

(***************************************************************************)
(* SpecRange: _get_campaign_events_by_range applied to a campaign whose    *)
(* events have start times on both sides of every window boundary.         *)
(***************************************************************************)
\* longest quest_event_ids list the timeline query is applied to
MaxTimed == 3

StartPool ==
    {WorldClockTime(4, 23, 59), WorldClockTime(5, 0, 0),
     WorldClockTime(5, 23, 59), WorldClockTime(6, 0, 0),
     WorldClockTime(11, 23, 59), WorldClockTime(12, 0, 0),
     WorldClockTime(34, 23, 59), WorldClockTime(35, 0, 0),
     WorldClockTime(369, 23, 59), WorldClockTime(370, 0, 0)}


\* the (start_time, end_time) pairs of the events: every start without an
\* end, the two starts around the end of day 5 also with an end
TimePool ==
    {[start_time |-> st, end_time |-> NoEnd] : st \in StartPool}
    \cup {[start_time |-> st, end_time |-> <<WorldClockTime(400, 0, 0)>>] :
             st \in {WorldClockTime(5, 23, 59), WorldClockTime(6, 0, 0)}}

AnchorPool ==
    {WorldClockTime(5, 0, 0), WorldClockTime(5, 9, 0),
     WorldClockTime(5, 23, 59)}

TimedEvent(eid, start_time, end_time) ==
    [event_id |-> eid, start_time |-> start_time, end_time |-> end_time]

TimedStore(n, tm) ==
    [eid \in {"E" \o ToString(i) : i \in 1..n} |->
        LET i == CHOOSE k \in 1..n : eid = "E" \o ToString(k)
        IN  TimedEvent(eid, tm[i].start_time, tm[i].end_time)]

InitRange ==
    /\ users = <<>> /\ realms = <<>> /\ campaigns = <<>> /\ events = <<>>
    /\ id_counters = [realm |-> 1, campaign |-> 1, event |-> 1, char |-> 1]
    /\ current_user = None
    /\ pc = "call" /\ camp = None /\ ev = None /\ last = NoCall
    /\ app = None
    /\ edits = 0
    /\ characters = <<>> /\ issued = NoneIssued /\ file = NoFile
    /\ \E n \in 0..MaxTimed :
       \E tm \in [1..n -> TimePool],
          range_type \in TimeRangeType, anchor \in AnchorPool :
          input = [events |-> TimedStore(n, tm),
                   camp |-> [quest_event_ids |->
                                [i \in 1..n |-> "E" \o ToString(i)]],
                   range_type |-> range_type, anchor |-> anchor]
    /\ output = None

call_get_campaign_events_by_range ==
    /\ pc = "call"
    /\ output = None
    /\ output' = get_campaign_events_by_range(input.events, input.camp,
                                              input.range_type, input.anchor)
    /\ UNCHANGED <<users, realms, campaigns, events, id_counters, current_user,
                   pc, camp, ev, last, characters, issued, file, input, app, edits>>

NextRange == call_get_campaign_events_by_range

SpecRange == InitRange /\ [][NextRange]_vars

RangeLength(range_type) ==
    IF range_type = "DAY" THEN 1440
    ELSE IF range_type = "WEEK" THEN 7 * 1440
    ELSE IF range_type = "MONTH" THEN 30 * 1440
    ELSE 365 * 1440

Returned == {output[i] : i \in 1..Len(output)}

\* the query's arguments with the anchor's hour and minute and every
\* event's end_time blanked
Blanked ==
    [input EXCEPT
       !.anchor = WorldClockTime(input.anchor.day, 0, 0),
       !.events = [eid \in DOMAIN input.events |->
                      [input.events[eid] EXCEPT !.end_time = NoEnd]]]

\* C12: the result holds, once each, exactly the events of quest_event_ids
\* whose start lies in [anchor.day*1440, anchor.day*1440 + L), L = 1440 for
\* DAY, 7*1440 for WEEK, 30*1440 for MONTH, 365*1440 for YEAR; the anchor's
\* hour and minute and the events' end_time do not change it; for DAY it is
\* the events that start on the anchor's day.
C12_RangeWindowMembership ==
    (output # None) =>
        /\ Returned =
             {eid \in Range(input.camp.quest_event_ids) :
                 /\ eid \in DOMAIN input.events
                 /\ input.anchor.day * 1440
                       <= to_minutes(input.events[eid].start_time)
                 /\ to_minutes(input.events[eid].start_time)
                       < input.anchor.day * 1440 + RangeLength(input.range_type)}
        /\ Len(output) = Cardinality(Returned)
        /\ output = get_campaign_events_by_range(Blanked.events, Blanked.camp,
                                                 Blanked.range_type,
                                                 Blanked.anchor)
        /\ (input.range_type = "DAY") =>
              Returned = {eid \in DOMAIN input.events :
                             input.events[eid].start_time.day = input.anchor.day}

\* a DAY query anchored at day 5 09:00 over an event at day 5 23:59 with an
\* end_time and an event at day 6 00:00: the first returned, the second not
C12_Witness ==
    /\ output # None
    /\ input.range_type = "DAY"
    /\ input.anchor = WorldClockTime(5, 9, 0)
    /\ \E a \in Returned :
          /\ input.events[a].start_time = WorldClockTime(5, 23, 59)
          /\ input.events[a].end_time # NoEnd
    /\ \E b \in DOMAIN input.events \ Returned :
          input.events[b].start_time = WorldClockTime(6, 0, 0)

PositionIn(seq, x) == CHOOSE i \in 1..Len(seq) : seq[i] = x

\* C13: the result is in non-decreasing order of to_minutes(start_time), and
\* events with equal start times keep their relative order in quest_event_ids.
C13_RangeStableAscending ==
    (output # None) =>
        \A i, j \in 1..Len(output) :
            (i < j) =>
               /\ to_minutes(input.events[output[i]].start_time)
                     <= to_minutes(input.events[output[j]].start_time)
               /\ (to_minutes(input.events[output[i]].start_time)
                      = to_minutes(input.events[output[j]].start_time))
                    => PositionIn(input.camp.quest_event_ids, output[i])
                          < PositionIn(input.camp.quest_event_ids, output[j])

\* two events with the same start time returned, and a later-listed event
\* with an earlier start moved in front of them
C13_Witness ==
    /\ output # None
    /\ Len(output) >= 2
    /\ \E i, j \in 1..Len(output) :
          /\ i < j
          /\ to_minutes(input.events[output[i]].start_time)
                = to_minutes(input.events[output[j]].start_time)
    /\ output # input.camp.quest_event_ids

(***************************************************************************)
(* SpecPersist: the store is changed, saved and loaded.  The document on   *)
(* disk is the payload save builds, enum members written the way the       *)
(* *_to_dict helpers write them.                                           *)
(***************************************************************************)
do_share_campaign(cid, to_user, p) ==
    /\ pc = "call"
    /\ cid \in DOMAIN campaigns
    /\ to_user \in DOMAIN users
    /\ campaigns' = [campaigns EXCEPT ![cid] = Campaign_share_with(@, to_user, p)]
    /\ last' = Handler("share_campaign", cid)
    /\ output' = None
    /\ UNCHANGED <<users, realms, events, id_counters, current_user, pc, camp,
                   ev, characters, issued, file, input, app, edits>>

do_save ==
    /\ pc = "call"
    /\ file' = <<payload>>
    /\ last' = Handler("save", None)
    /\ output' = "Saved"
    /\ UNCHANGED <<users, realms, campaigns, events, id_counters, current_user,
                   pc, camp, ev, characters, issued, input, app, edits>>

\* load assigns the store attribute by attribute; an exception raised while
\* a collection is decoded leaves the attributes assigned before it replaced
\* and the others as they were, and leaves load (pc = "raised")
do_load ==
    /\ pc = "call"
    /\ last' = Call("load", None, None, None, Store)
    /\ UNCHANGED <<camp, ev, issued, file, input, app, edits>>
    /\ IF file = NoFile
       THEN /\ output' = "No saved file found."
            /\ UNCHANGED <<users, realms, campaigns, events, id_counters,
                           current_user, characters, pc>>
       ELSE LET l == Loaded(file[1]) IN
            /\ id_counters' = l.id_counters
            /\ users' = l.users
            /\ realms' = l.realms
            /\ campaigns' = l.campaigns
            /\ events' = l.events
            /\ characters' = l.characters
            /\ current_user' = l.current_user
            /\ output' = IF l.raised THEN "ValueError" ELSE "Loaded"
            /\ pc' = IF l.raised THEN "raised" ELSE pc

InitPersist == InitList

NextPersist ==
    \/ \E chosen \in DOMAIN users : do_login(chosen)
    \/ \E cid \in DOMAIN campaigns, v \in Visibility : do_set_visibility(cid, v)
    \/ \E cid \in DOMAIN campaigns, rid \in RealmIds \cup {None} :
          /\ id_counters["event"] <= MaxEvents
          /\ Len(issued["event"]) < MaxEvents
          /\ \E k \in DOMAIN AddEventScripts :
                do_add_event_to_campaign(cid, rid, AddEventScripts[k].p,
                                         AddEventScripts[k].i)
    \/ \E cid \in DOMAIN campaigns, to_user \in ListUsers, p \in PermissionLevel :
          do_share_campaign(cid, to_user, p)
    \/ \E eid \in DOMAIN events, to_user \in ListUsers, p \in PermissionLevel :
          do_share_event(eid, to_user, p)
    \/ do_save
    \/ do_load

SpecPersist == InitPersist /\ [][NextPersist]_vars

\* C14: save followed by load succeeds and leaves users, realms, campaigns,
\* events, characters, id counters and current_user equal to the saved ones.
C14_SaveLoadRoundTrip ==
    [][(last.op = "save" /\ last'.op = "load") =>
          (output' = "Loaded" /\ Store' = Store)]_vars

DocShares(doc) ==
    UNION ({Range(doc.campaigns[k].shares) : k \in DOMAIN doc.campaigns}
           \cup {Range(doc.events[k].shares) : k \in DOMAIN doc.events})

\* C15: in the saved document campaign visibility is "PUBLIC" or "PRIVATE",
\* user time_display is "WORLD", "LOCAL" or "BOTH", and the permission of
\* every campaign Share and event Share is "VIEW_ONLY" or "COLLABORATIVE".
C15_EnumsSavedAsBareTags ==
    (file # NoFile) =>
        /\ \A k \in DOMAIN file[1].campaigns :
              file[1].campaigns[k].visibility \in {"PUBLIC", "PRIVATE"}
        /\ \A k \in DOMAIN file[1].users :
              file[1].users[k].settings.time_display
                 \in {"WORLD", "LOCAL", "BOTH"}
        /\ \A s \in DocShares(file[1]) :
              s.permission \in {"VIEW_ONLY", "COLLABORATIVE"}

\* C16: a load that fails leaves users, realms, campaigns, events,
\* characters, id counters and current_user exactly as before the call.
C16_FailedLoadChangesNothing ==
    (last.op = "load" /\ output # "Loaded") => Store = last.old

(***************************************************************************)
(* SpecStore: from the store GuildQuestApp() builds, the handlers that     *)
(* draw ids and the handler that removes events, in any order.             *)
(***************************************************************************)
InitStore ==
    /\ users = <<>>
    /\ realms = <<>>
    /\ campaigns = <<>>
    /\ events = <<>>
    /\ id_counters = [realm |-> 1, campaign |-> 1, event |-> 1, char |-> 1]
    /\ current_user = None
    /\ pc = "call"
    /\ camp = None
    /\ ev = None
    /\ last = NoCall
    /\ app = None
    /\ edits = 0
    /\ characters = <<>>
    /\ issued = NoneIssued
    /\ file = NoFile
    /\ input = None
    /\ output = None

NextStore ==
    \/ do_ensure_default_realm
    \/ do_create_user(NamePool[1])
    \/ id_counters["realm"] <= MaxRealms /\ do_create_realm
    \/ id_counters["char"] <= MaxChars /\ do_create_character
    \/ id_counters["campaign"] <= MaxOwned /\ do_create_campaign
    \/ \E cid \in DOMAIN campaigns, rid \in RealmIds \cup {None} :
          /\ id_counters["event"] <= MaxListed
          /\ \E k \in 1..2 :
                do_add_event_to_campaign(cid, rid, AddEventScripts[k].p,
                                         AddEventScripts[k].i)
    \/ \E cid \in DOMAIN campaigns, eid \in DOMAIN events :
          do_remove_event_from_campaign(cid, eid)

SpecStore == InitStore /\ [][NextStore]_vars

Kinds == {"realm", "campaign", "event", "char"}

\* the keys of the collection ids of a kind are stored under
StoreKeys(kind) ==
    IF kind = "realm" THEN RealmIds
    ELSE IF kind = "campaign" THEN DOMAIN campaigns
    ELSE IF kind = "event" THEN DOMAIN events
    ELSE DOMAIN characters

\* C17: every id _new_id returns has a larger number than every id returned
\* before for its kind, differs from all of them (ids of removed events
\* included) and is not a key of the store at the time it is drawn.
C17_NewIdStep ==
    \A kind \in Kinds :
        (issued'[kind] # issued[kind]) =>
            LET new == issued'[kind][Len(issued'[kind])] IN
            /\ issued'[kind] = Append(issued[kind], new)
            /\ \A i \in 1..Len(issued[kind]) :
                  /\ issued[kind][i].n < new.n
                  /\ issued[kind][i].id # new.id
            /\ new.id \notin StoreKeys(kind)

C17_IdsNeverReused == [][C17_NewIdStep]_vars

\* a second event id drawn and stored after the first was removed or given
\* up at the realm picker, with two realm ids and a character id drawn
C17_Witness ==
    /\ Len(issued["event"]) >= 2
    /\ last.op = "add_event_to_campaign"
    /\ Cardinality(DOMAIN events) = 1
    /\ Len(issued["realm"]) = 2
    /\ Len(issued["char"]) >= 1

\* the number of places an event id takes in the quest_event_ids lists
Listings(eid) ==
    Cardinality(UNION {{<<cid, i>> :
                          i \in {j \in 1..Len(campaigns[cid].quest_event_ids) :
                                    campaigns[cid].quest_event_ids[j] = eid}} :
                       cid \in DOMAIN campaigns})

EventsListedOnce ==
    /\ \A eid \in DOMAIN events : Listings(eid) = 1
    /\ \A cid \in DOMAIN campaigns :
          Range(campaigns[cid].quest_event_ids) \subseteq DOMAIN events

RemovalRemovesBoth ==
    (last'.op = "remove_event_from_campaign") =>
        /\ last'.target \in DOMAIN events
        /\ last'.target \notin DOMAIN events'
        /\ \A cid \in DOMAIN campaigns' :
              last'.target \notin Range(campaigns'[cid].quest_event_ids)

\* C18: each event of the store is in exactly one campaign's quest_event_ids
\* exactly once, every listed id is a key of the store, and
\* remove_event_from_campaign takes the event out of the list and the store.
C18_EventsInOneCampaign == []EventsListedOnce /\ [][RemovalRemovesBoth]_vars

\* an event was removed from one of two campaigns while the other campaign
\* still lists its event
C18_Witness ==
    /\ last.op = "remove_event_from_campaign"
    /\ Cardinality(DOMAIN events) = 1
    /\ Cardinality(DOMAIN campaigns) = 2
    /\ \E cid \in DOMAIN campaigns :
          /\ campaigns[cid].quest_event_ids # <<>>
          /\ last.target \notin Range(campaigns[cid].quest_event_ids)

\* C19: an operation whose picker is cancelled leaves the whole store, id
\* counters included, as it was before the operation began.
C19_CancelledPickerNoMutation ==
    [][(last'.op = "add_event_to_campaign cancelled") => Store' = Store]_vars

(***************************************************************************)
(* SpecTime: WorldClockTime.plus_minutes applied to every valid time of    *)
(* the first days and to deltas around zero, the hour, the day and the     *)
(* time's own minute count.                                                *)
(***************************************************************************)
\* last day of the times plus_minutes is applied to
MaxDay == 1

DeltaPool ==
    {-2881, -1441, -1440, -1439, -61, -60, -59, -1, 0, 1, 59, 60, 61,
     1439, 1440, 1441, 2881}

InitTime ==
    /\ users = <<>> /\ realms = <<>> /\ campaigns = <<>> /\ events = <<>>
    /\ id_counters = [realm |-> 1, campaign |-> 1, event |-> 1, char |-> 1]
    /\ current_user = None
    /\ pc = "call" /\ camp = None /\ ev = None /\ last = NoCall
    /\ app = None
    /\ edits = 0
    /\ characters = <<>> /\ issued = NoneIssued /\ file = NoFile
    /\ \E day \in 0..MaxDay, hour \in 0..23, minute \in 0..59 :
       LET t == WorldClockTime(day, hour, minute) IN
       \E delta \in DeltaPool \cup {-to_minutes(t), -to_minutes(t) - 1} :
          input = [t |-> t, delta |-> delta]
    /\ output = None

call_plus_minutes ==
    /\ pc = "call"
    /\ output = None
    /\ output' = plus_minutes(input.t, input.delta)
    /\ UNCHANGED <<users, realms, campaigns, events, id_counters, current_user,
                   pc, camp, ev, last, characters, issued, file, input, app, edits>>

NextTime == call_plus_minutes

SpecTime == InitTime /\ [][NextTime]_vars

PlusMinutesResult ==
    (output # None) =>
        /\ (output = "ValueError")
              <=> (input.t.day * 1440 + input.t.hour * 60 + input.t.minute
                      + input.delta < 0)
        /\ (output # "ValueError") =>
              /\ Len(output) = 1
              /\ output[1].day >= 0
              /\ output[1].hour \in 0..23
              /\ output[1].minute \in 0..59
              /\ output[1].day * 1440 + output[1].hour * 60 + output[1].minute
                    = input.t.day * 1440 + input.t.hour * 60 + input.t.minute
                         + input.delta

\* C20: t.plus_minutes(delta) raises iff to_minutes(t) + delta < 0; else it
\* returns a valid time whose minute count is to_minutes(t) + delta; t is
\* left as it was.
C20_PlusMinutes == []PlusMinutesResult /\ [][input'.t = input.t]_vars

\* a time on day 1 taken back exactly to day 0 00:00
C20_Witness ==
    /\ output # None
    /\ output # "ValueError"
    /\ output[1] = WorldClockTime(0, 0, 0)
    /\ input.t.day = 1
    /\ input.delta < 0


(***************************************************************************)
(* SpecClock: a valid time is encoded by to_minutes and rebuilt from day 0 *)
(* 00:00 by plus_minutes, or moved by plus_minutes twice in a row.         *)
(***************************************************************************)
StepPool == {-1441, -61, -1, 0, 1, 61, 1380, 1441}

InitClock ==
    /\ users = <<>> /\ realms = <<>> /\ campaigns = <<>> /\ events = <<>>
    /\ id_counters = [realm |-> 1, campaign |-> 1, event |-> 1, char |-> 1]
    /\ current_user = None
    /\ pc = "call" /\ camp = None /\ ev = None /\ last = NoCall
    /\ app = None
    /\ edits = 0
    /\ characters = <<>> /\ issued = NoneIssued /\ file = NoFile
    /\ \E day \in 0..MaxDay, hour \in 0..23, minute \in 0..59 :
       \E d1 \in StepPool, d2 \in StepPool :
          input = [t |-> WorldClockTime(day, hour, minute),
                   d1 |-> d1, d2 |-> d2]
    /\ output = None

frameClock ==
    <<users, realms, campaigns, events, id_counters, current_user, camp, ev,
      last, characters, issued, file, input, app, edits>>

\* m = t.to_minutes()
call_to_minutes ==
    /\ pc = "call"
    /\ output' = to_minutes(input.t)
    /\ pc' = "encoded"
    /\ UNCHANGED frameClock

\* WorldClockTime(0, 0, 0).plus_minutes(m)
call_rebuild ==
    /\ pc = "encoded"
    /\ output' = plus_minutes(WorldClockTime(0, 0, 0), output)
    /\ pc' = "rebuilt"
    /\ UNCHANGED frameClock

\* r1 = t.plus_minutes(d1)
call_plus_first ==
    /\ pc = "call"
    /\ output' = plus_minutes(input.t, input.d1)
    /\ pc' = IF output' = "ValueError" THEN "raised" ELSE "first"
    /\ UNCHANGED frameClock

\* r1.plus_minutes(d2)
call_plus_second ==
    /\ pc = "first"
    /\ output' = plus_minutes(output[1], input.d2)
    /\ pc' = "second"
    /\ UNCHANGED frameClock

NextClock ==
    \/ call_to_minutes
    \/ call_rebuild
    \/ call_plus_first
    \/ call_plus_second

SpecClock == InitClock /\ [][NextClock]_vars

\* C21: a valid time rebuilt from its minute count by day = m // 1440,
\* hour = (m % 1440) // 60, minute = m % 60 is the time itself:
\* WorldClockTime(0, 0, 0).plus_minutes(t.to_minutes()) == t.
C21_MinuteEncodingRoundTrip ==
    /\ (pc = "encoded") =>
          /\ output = input.t.day * 1440 + input.t.hour * 60 + input.t.minute
          /\ WorldClockTime(output \div 1440, (output % 1440) \div 60,
                            output % 60) = input.t
    /\ (pc = "rebuilt") => output = <<input.t>>

\* a time with all three fields non-zero on a later day was rebuilt
C21_Witness ==
    /\ pc = "rebuilt"
    /\ input.t = WorldClockTime(1, 23, 59)
    /\ output = <<WorldClockTime(1, 23, 59)>>

\* C22: when t.to_minutes() + d1 >= 0 and t.to_minutes() + d1 + d2 >= 0,
\* t.plus_minutes(d1).plus_minutes(d2) == t.plus_minutes(d1 + d2).
C22_PlusMinutesAdditive ==
    LET total == input.t.day * 1440 + input.t.hour * 60 + input.t.minute IN
    /\ (pc = "raised") => total + input.d1 < 0
    /\ (pc = "second" /\ total + input.d1 + input.d2 >= 0) =>
          output = plus_minutes(input.t, input.d1 + input.d2)

\* an hour before midnight moved over midnight and then most of a day on
C22_Witness ==
    /\ pc = "second"
    /\ input = [t |-> WorldClockTime(0, 23, 0), d1 |-> 61, d2 |-> 1380]
    /\ output = <<WorldClockTime(1, 23, 1)>>


(***************************************************************************)
(* SpecInventory: _apply_event_inventory_changes applied to an event with  *)
(* one recorded change, over characters that hold items already.           *)
(***************************************************************************)
\* longest inventory the first character starts with
MaxInv == 3

ItemPool ==
    {InventoryItem("potion", "red"), InventoryItem("potion", "blue"),
     InventoryItem("sword", "")}

RECURSIVE SeqsUpTo(_, _)
SeqsUpTo(S, n) ==
    IF n = 0 THEN {<<>>}
    ELSE LET shorter == SeqsUpTo(S, n - 1) IN
         shorter \cup {Append(q, x) : q \in shorter, x \in S}

CharacterWith(cid, inventory) ==
    [NewCharacter(cid) EXCEPT !.inventory = inventory]

InitInventory ==
    /\ app = None
    /\ edits = 0
    /\ users = <<>> /\ realms = <<>> /\ campaigns = <<>> /\ events = <<>>
    /\ id_counters = [realm |-> 1, campaign |-> 1, event |-> 1, char |-> 3]
    /\ current_user = None
    /\ pc = "call" /\ camp = None /\ ev = None /\ last = NoCall
    /\ issued = NoneIssued /\ file = NoFile
    /\ \E inv1 \in SeqsUpTo(ItemPool, MaxInv), inv2 \in SeqsUpTo(ItemPool, 1) :
          characters = ("C1" :> CharacterWith("C1", inv1))
                       @@ ("C2" :> CharacterWith("C2", inv2))
    /\ \E participants \in {<<>>, <<"C1">>, <<"C1", "C2">>, <<"C2", "C1">>,
                            <<"C9", "C1">>},
          item \in ItemPool, delta_qty \in {-3, -1, 0, 1, 2},
          target \in {None, "C1", "C2", "C9"} :
          input = [participant_char_ids |-> participants,
                   inventory_changes |->
                      <<InventoryChange(item, delta_qty, target)>>]
    /\ output = None

apply_event_inventory_changes ==
    /\ pc = "call"
    /\ output = None
    /\ characters' = ApplyChanges(characters, input, input.inventory_changes)
    /\ output' = "Applied inventory changes."
    /\ last' = Call("apply_event_inventory_changes", None, None, None,
                    characters)
    /\ UNCHANGED <<users, realms, campaigns, events, id_counters, current_user,
                   pc, camp, ev, issued, file, input, app, edits>>

NextInventory == apply_event_inventory_changes

SpecInventory == InitInventory /\ [][NextInventory]_vars


\* the change applied, the characters before it, and the targets the claims
\* name for it
TheChange == input.inventory_changes[1]

Before == last.old

ClaimedTargets ==
    IF TheChange.target_char_id # None THEN {TheChange.target_char_id}
    ELSE Range(input.participant_char_ids)

CountNamed(inventory, item_name) ==
    Cardinality({i \in 1..Len(inventory) : inventory[i].name = item_name})

NotNamed(inventory, item_name) ==
    SelectSeq(inventory, LAMBDA it : it.name # item_name)

Min(a, b) == IF a <= b THEN a ELSE b

RECURSIVE IsSubsequence(_, _)
IsSubsequence(a, b) ==
    IF a = <<>> THEN TRUE
    ELSE IF b = <<>> THEN FALSE
    ELSE IF Head(a) = Head(b) THEN IsSubsequence(Tail(a), Tail(b))
    ELSE IsSubsequence(a, Tail(b))

\* C23: a change with delta_qty < 0 removes from each target character
\* min(|delta_qty|, items of that name held) items of that name, keeps the
\* other items and the order of what stays, and raises no error when fewer
\* are held; delta_qty = 0 changes nothing.
C23_NegativeDeltaRemovesUpTo ==
    (last.op = "apply_event_inventory_changes" /\ TheChange.delta_qty <= 0) =>
        /\ output = "Applied inventory changes."
        /\ DOMAIN characters = DOMAIN Before
        /\ \A cid \in DOMAIN characters :
              LET old == Before[cid].inventory
                  new == characters[cid].inventory
                  n == TheChange.item.name
              IN  IF cid \in ClaimedTargets /\ TheChange.delta_qty < 0
                  THEN /\ CountNamed(new, n)
                            = CountNamed(old, n)
                                 - Min(-TheChange.delta_qty, CountNamed(old, n))
                       /\ NotNamed(new, n) = NotNamed(old, n)
                       /\ IsSubsequence(new, old)
                  ELSE characters[cid] = Before[cid]

\* delta_qty = -3 on a character that held exactly two potions around a
\* sword: both potions gone, the sword left
C23_Witness ==
    /\ last.op = "apply_event_inventory_changes"
    /\ TheChange.delta_qty = -3
    /\ TheChange.item.name = "potion"
    /\ TheChange.target_char_id = "C1"
    /\ Before["C1"].inventory
          = <<InventoryItem("potion", "red"), InventoryItem("sword", ""),
              InventoryItem("potion", "blue")>>
    /\ characters["C1"].inventory = <<InventoryItem("sword", "")>>

RECURSIVE Repeated(_, _)
Repeated(item, n) == IF n <= 0 THEN <<>> ELSE <<item>> \o Repeated(item, n - 1)

\* C24: a change with delta_qty > 0 appends the item delta_qty times to each
\* target character in the store, the targets being target_char_id when set
\* and the event's participants otherwise; ids without a character are
\* skipped without error and the other characters keep their inventories.
C24_PositiveDeltaAppends ==
    (last.op = "apply_event_inventory_changes" /\ TheChange.delta_qty > 0) =>
        /\ output = "Applied inventory changes."
        /\ DOMAIN characters = DOMAIN Before
        /\ \A cid \in DOMAIN characters :
              IF cid \in ClaimedTargets
              THEN characters[cid] =
                      [Before[cid] EXCEPT !.inventory =
                          @ \o Repeated(TheChange.item, TheChange.delta_qty)]
              ELSE characters[cid] = Before[cid]

\* a grant of two to all participants, one of them unknown: the known
\* participant holds two more, the character outside the event is untouched
C24_Witness ==
    /\ last.op = "apply_event_inventory_changes"
    /\ TheChange.delta_qty = 2
    /\ TheChange.target_char_id = None
    /\ input.participant_char_ids = <<"C9", "C1">>
    /\ Len(characters["C1"].inventory) = Len(Before["C1"].inventory) + 2
    /\ Before["C1"].inventory # <<>>
    /\ characters["C2"] = Before["C2"]
    /\ characters["C2"].inventory # <<>>


(***************************************************************************)
(* Mutations made from the edit_campaign loop (checked under Spec)         *)
(***************************************************************************)
\* a step of the edit_campaign loop, or of the loops under it, that changes
\* the campaign held by the loop or the event store
EditLoopMutation ==
    /\ pc \in {"edit_campaign", "manage_events", "edit_event"}
    /\ campaigns' # campaigns \/ events' # events

\* C26: every mutation made inside edit_campaign (set visibility, archive
\* toggle, share, unshare, add / edit / remove event) is made in a state
\* where camp.can_edit(current_user) holds, also after the editing user
\* unshared themself or set the campaign PUBLIC.
C26_EditLoopMutationsNeedEdit ==
    [][EditLoopMutation => can_edit(campaigns[camp], current_user)]_vars


(***************************************************************************)
(* SpecTimeline: GuildQuestApp.view_timeline called once on a campaign     *)
(* as the edit_campaign loop calls it.  The campaign is owned by ann and   *)
(* may be shared with bob; its events sit in realms with an offset, one    *)
(* realm id having no realm.  output is the sequence of lines printed,     *)
(* closed by "ValueError" when the call raised.                            *)
(***************************************************************************)
MaxShown == 2

\* variant: the campaign's permission not consulted
ViewRefusal_login_only(c) ==
    IF ~require_login THEN <<"Please login first.">> ELSE <<>>

\* the two early returns of view_timeline: the line printed, <<>> when the
\* call goes on
ViewRefusal(c) ==
    IF ~require_login THEN <<"Please login first.">>
    ELSE IF ~can_view(c, current_user)
    THEN <<"You cannot view this campaign.">>
    ELSE <<>>

OffsetPool == {-600, -60, 90}

ShownStartPool ==
    {WorldClockTime(0, 0, 30), WorldClockTime(0, 5, 0), WorldClockTime(1, 0, 10)}

ShownEvent(eid, start_time, rid) ==
    QuestEvent(eid, eid, start_time, NoEnd, rid)

InitTimeline ==
    /\ app = None
    /\ edits = 0
    /\ characters = <<>> /\ issued = NoneIssued /\ file = NoFile
    /\ id_counters = [realm |-> 3, campaign |-> 2, event |-> 1, char |-> 1]
    /\ pc = "call" /\ camp = None /\ ev = None /\ last = NoCall
    /\ output = None
    /\ \E offset \in OffsetPool :
          realms = <<NewRealm("R1"),
                     [realm_id |-> "R2", name |-> "Moon",
                      time_rule |-> [offset_minutes |-> offset]]>>
    /\ \E pref \in TimeDisplayPreference :
          users = ("ann" :> NewUser("ann", "R1"))
                  @@ ("bob" :> [NewUser("bob", "R1") EXCEPT
                                   !.settings.time_display = pref])
    /\ current_user \in {None, "ann", "bob"}
    /\ \E n \in 0..MaxShown :
       \E st \in [1..n -> ShownStartPool], rid \in [1..n -> {"R1", "R2", "R9"}],
          v \in Visibility,
          shares \in {<<>>, <<Share("bob", "VIEW_ONLY")>>,
                      <<Share("bob", "COLLABORATIVE")>>} :
          /\ events = [eid \in {"E" \o ToString(i) : i \in 1..n} |->
                          LET i == CHOOSE k \in 1..n : eid = "E" \o ToString(k)
                          IN  ShownEvent(eid, st[i], rid[i])]
          /\ campaigns =
                ("P1" :> ([name |-> "Camp"]
                          @@ [NewCampaign("P1", "ann") EXCEPT
                                 !.visibility = v, !.shares = shares,
                                 !.quest_event_ids =
                                     [i \in 1..n |-> "E" \o ToString(i)]]))
    /\ \E r \in {"DAY", "WEEK", "FORTNIGHT"},
          anchor \in {WorldClockTime(0, 9, 0), WorldClockTime(1, 0, 0)} :
          input = [camp |-> "P1", r |-> r, anchor |-> anchor]

\* view_timeline(camp) with the range and the anchor typed; last records the
\* call of _get_campaign_events_by_range
do_view_timeline ==
    /\ pc = "call"
    /\ output = None
    /\ LET c == campaigns[input.camp]
           refusal == ViewRefusal(c)
       IN  IF refusal # <<>>
           THEN /\ output' = refusal
                /\ last' = last
           ELSE IF input.r \notin TimeRangeType
           THEN /\ output' = <<"Invalid range.">>
                /\ last' = last
           ELSE LET found == get_campaign_events_by_range(events, c, input.r,
                                                         input.anchor)
                    pref == users[current_user].settings.time_display
                IN  /\ last' = Call("_get_campaign_events_by_range",
                                    input.camp, current_user, None, None)
                    /\ output' =
                          <<TimelineHeader(c, input.r, input.anchor)>>
                          \o (IF found = <<>> THEN <<"(no events in range)">>
                              ELSE TimelineLines(found, pref))
    /\ UNCHANGED <<users, realms, campaigns, events, id_counters, current_user,
                   pc, camp, ev, characters, issued, file, input, app, edits>>

NextTimeline == do_view_timeline

SpecTimeline == InitTimeline /\ [][NextTimeline]_vars

ViewAllowed ==
    require_login /\ can_view(campaigns[input.camp], current_user)

QueryMade == last.op = "_get_campaign_events_by_range"

\* C25: every call of _get_campaign_events_by_range made through
\* view_timeline for a campaign happens with a user logged in who can view
\* that campaign; otherwise view_timeline returns without listing any event.
C25_TimelineQueryNeedsView ==
    /\ QueryMade =>
          /\ require_login
          /\ last.target = input.camp
          /\ can_view(campaigns[last.target], current_user)
    /\ (output # None /\ ~ViewAllowed) =>
          /\ ~QueryMade
          /\ output \in {<<"Please login first.">>,
                          <<"You cannot view this campaign.">>}

\* bob, holding only a VIEW_ONLY share of the PRIVATE campaign, is shown two
\* events
C25_Witness ==
    /\ QueryMade
    /\ current_user = "bob"
    /\ campaigns["P1"].visibility = "PRIVATE"
    /\ campaigns["P1"].shares = <<Share("bob", "VIEW_ONLY")>>
    /\ Len(output) = 3
    /\ output[3] # "ValueError"

\* the lines a WORLD viewer is to be shown for the events found
WorldLines(found) ==
    [i \in 1..Len(found) |->
        "- " \o found[i] \o ": " \o events[found[i]].name \o " @ "
             \o str_WorldClockTime(events[found[i]].start_time)]

\* C27: for a viewer whose time_display is WORLD view_timeline completes
\* without error and shows the world time of every event in range, whatever
\* the offsets of the realms, also when to_local fails for an event's realm
\* and when the event's realm_id is dangling.
C27_WorldViewIgnoresOffsets ==
    (QueryMade /\ users[current_user].settings.time_display = "WORLD") =>
        LET found == get_campaign_events_by_range(events, campaigns[input.camp],
                                                  input.r, input.anchor)
        IN  output = <<TimelineHeader(campaigns[input.camp], input.r,
                                      input.anchor)>>
                     \o (IF found = <<>> THEN <<"(no events in range)">>
                         ELSE WorldLines(found))


(***************************************************************************)
(* src/app.py.  app holds the objects reachable from the GuildQuestApp     *)
(* that default_elems builds.  Objects that are shared by reference are    *)
(* kept in heaps and named by their index there: app.Realms holds the      *)
(* Realm objects, app.Quests the QuestEvent objects, app.lists the list    *)
(* objects that hold quests.  Two fields that name the same index are the  *)
(* same Python object.                                                     *)
(*                                                                         *)
(* SpecRealm: the settings menu and the realm menu acting on the realms    *)
(* and on the WorldClock; SpecQuest: the campaign menu and the quest menu  *)
(* acting on the quests and the quest lists.  What the user types at a     *)
(* prompt that is parsed (an entry of PrintOptions, a "press y", a number  *)
(* for int()) is a sequence of code points; a name typed is a string.  An  *)
(* exception no caller catches ends the program: pc becomes "raised",      *)
(* output names the exception and app keeps what was written before it.    *)
(***************************************************************************)
\* the realms addRealm adds
MaxAdded == 1

\* how a call ends: the exception it raises, None when it returns value
returns(value) == [raises |-> None, value |-> value]

raises(exception) == [raises |-> exception, value |-> None]

\* the zeros of the decimal digits of Unicode (str.isdecimal); the nine code
\* points after a zero are its digits 1 to 9
decimal_zeros ==
    {48, 1632, 1776, 1984, 2406, 2534, 2662, 2790, 2918, 3046, 3174, 3302,
     3430, 3558, 3664, 3792, 3872, 4160, 4240, 6112, 6160, 6470, 6608, 6784,
     6800, 6992, 7088, 7232, 7248, 42528, 43216, 43264, 43472, 43504, 43600,
     44016, 65296, 66720, 68912, 69734, 69872, 69942, 70096, 70384, 70736,
     70864, 71248, 71360, 71472, 71904, 72016, 72784, 73040, 73120, 92768,
     92864, 93008, 120782, 120792, 120802, 120812, 120822, 123200, 123632,
     125264, 130032}

\* the code points str.isdigit() accepts and str.isdecimal() does not:
\* superscripts, subscripts, circled and parenthesized digits
other_digits ==
    (178..179) \cup {185} \cup (4969..4977) \cup {6618} \cup {8304}
    \cup (8308..8313) \cup (8320..8329) \cup (9312..9320) \cup (9332..9340)
    \cup (9352..9360) \cup {9450} \cup (9461..9469) \cup {9471}
    \cup (10102..10110) \cup (10112..10120) \cup (10122..10130)
    \cup (68160..68163) \cup (69216..69224) \cup (69714..69722)
    \cup (127232..127242)

decimal_points == UNION {z..(z + 9) : z \in decimal_zeros}

digit_points == decimal_points \cup other_digits

isdecimal(c) == c \in decimal_points

\* str.isdigit()
isdigit(result) ==
    result # <<>> /\ \A i \in DOMAIN result : result[i] \in digit_points

\* the whitespace int() drops at both ends: that of str.strip() but the four
\* separators 28..31
int_whitespace == whitespace \ (28..31)

RECURSIVE int_strip(_)
int_strip(typed) ==
    IF typed = <<>> THEN <<>>
    ELSE IF Head(typed) \in int_whitespace THEN int_strip(Tail(typed))
    ELSE IF typed[Len(typed)] \in int_whitespace
    THEN int_strip(SubSeq(typed, 1, Len(typed) - 1))
    ELSE typed

\* sys.int_info.default_max_str_digits
max_str_digits == 4300

\* A Python int has no width, an int of C has 32 bits, and the arithmetic
\* here has the width of an int of C.  An int the program reads or is handed
\* is in_c_int(n) when it lies in -2147483648..2147483647, and otherwise
\* beyond_c_int(negative, digits): its sign and the decimal digits of its
\* magnitude, the first of them not 0.
in_c_int(n) == [fits |-> TRUE, n |-> n]
beyond_c_int(negative, digits) ==
    [fits |-> FALSE, negative |-> negative, digits |-> digits]

\* the digit a decimal code point writes
digit_of(c) == c - (CHOOSE z \in decimal_zeros : z <= c /\ c <= z + 9)

\* the digits without the zeros that lead them
RECURSIVE significant(_)
significant(digits) ==
    IF digits # <<>> /\ digits[1] = 0 THEN significant(Tail(digits))
    ELSE digits

\* the number a sequence of digits writes
RECURSIVE decimal_value(_)
decimal_value(digits) ==
    IF digits = <<>> THEN 0
    ELSE 10 * decimal_value(SubSeq(digits, 1, Len(digits) - 1))
            + digits[Len(digits)]

\* the digits of 2147483647, the largest int of C
c_int_max == <<2, 1, 4, 7, 4, 8, 3, 6, 4, 7>>

\* of two numbers of ten digits, the first is not the larger
not_above(digits, limit) ==
    \/ digits = limit
    \/ \E i \in 1..10 : /\ digits[i] < limit[i]
                        /\ \A j \in 1..(i - 1) : digits[j] = limit[j]

\* the int of the given sign and significant digits; -2147483648 is the one
\* int of C whose magnitude is above 2147483647
python_int(negative, digits) ==
    IF Len(digits) < 10 \/ (Len(digits) = 10 /\ not_above(digits, c_int_max))
    THEN in_c_int(IF negative THEN 0 - decimal_value(digits)
                  ELSE decimal_value(digits))
    ELSE IF negative /\ digits = <<2, 1, 4, 7, 4, 8, 3, 6, 4, 8>>
    THEN in_c_int(0 - 2147483647 - 1)
    ELSE beyond_c_int(negative, digits)

\* the digits the decimal code points of a literal write
digits_of(points) == [i \in 1..Len(points) |-> digit_of(points[i])]

\* int() on the text s left by the whitespace, body being s without its
\* sign: decimal digits that single underscores may separate; anything else
\* raises ValueError
int_literal(s, body) ==
    IF \/ body = <<>>
       \/ ~isdecimal(body[1]) \/ ~isdecimal(body[Len(body)])
       \/ \E i \in DOMAIN body : ~isdecimal(body[i]) /\ body[i] # 95
       \/ \E i \in 1..(Len(body) - 1) : body[i] = 95 /\ body[i + 1] = 95
       \/ Len(SelectSeq(body, isdecimal)) > max_str_digits
    THEN raises("ValueError")
    ELSE returns(python_int(s[1] = 45,
                            significant(digits_of(SelectSeq(body, isdecimal)))))

\* the sign is "+" or "-"
int_signed(s) ==
    int_literal(s, IF s # <<>> /\ s[1] \in {43, 45} THEN Tail(s) ELSE s)

\* int(typed), base 10
int(typed) == int_signed(int_strip(typed))

\* UIHangler.PrintOptions once int(result) is evaluated: an index below the
\* length of the list is returned as <<index>>, any other falls off the end
\* and returns None, <<>> here.  The digits carry no sign, so an index
\* beyond an int of C is above every length.
index_below(list_obj, index) ==
    IF index.raises # None THEN index
    ELSE IF index.value.fits /\ index.value.n < Len(list_obj)
    THEN returns(<<index.value.n>>)
    ELSE returns(<<>>)

\* UIHangler.PrintOptions on the entry stripped: an entry that is not all
\* digits returns None; int() raises on digits that are not decimal
selected(list_obj, result) ==
    IF isdigit(result) THEN index_below(list_obj, int(result))
    ELSE returns(<<>>)

\* UIHangler.PrintOptions
PrintOptions(list_obj, typed) == selected(list_obj, strip(typed))

\* input(...).strip().upper() == "Y"
pressed_y(typed) == upper(strip(typed)) = <<89>>

\* Realm.__init__
Realm(name, LocalTR) == [name |-> name, localTime |-> LocalTR, isVisited |-> FALSE]

\* the default argument of WorldClock.__init__: WorldTime(instance), built
\* once while the class body runs, when instance is None
DefaultTimeOption == [cls |-> "WorldTime", wc |-> None, offset |-> <<>>]

\* the strategies SettingsMenu builds in selectedTime; offset is <<>> for
\* WorldTime, which has no such attribute, and <<n>> for the other two
selectedTime(k) ==
    IF k = 0 THEN [cls |-> "WorldTime", wc |-> "MenuWorldClock", offset |-> <<>>]
    ELSE IF k = 1
    THEN [cls |-> "RealmTime", wc |-> "MenuWorldClock", offset |-> <<0>>]
    ELSE [cls |-> "BothTime", wc |-> "MenuWorldClock", offset |-> <<0>>]

\* the int MenuWorldClock.MainMenu hands to updateTimeOption
int_object(n) == [cls |-> "int", value |-> n]

\* an int has no attribute setOffset
raises_AttributeError(UserOption) == UserOption.cls = "int"

\* setOffset: WorldTime's does nothing
setOffset(strategy, offset) ==
    IF strategy.cls \in {"WorldTime", "int"} THEN strategy
    ELSE [strategy EXCEPT !.offset = <<offset>>]

\* the class before its first call: instance is None (0 here, the objects
\* being numbered from 1)
NoInstance == [instance |-> 0]

\* WorldClock(): __new__ hands back the one instance, then __init__ runs on
\* it; it tests hasattr(self, "_initalized") and sets _initialized, so its
\* body runs on every call
WorldClock_call(w) ==
    [instance |-> IF w.instance = 0 THEN 1 ELSE w.instance,
     TimeCls |-> DefaultTimeOption, RealmOffset |-> 0]

\* TimeCls is assigned before setOffset is called on it
updateTimeOption(w, UserOption) ==
    [w EXCEPT !.TimeCls = setOffset(UserOption, w.RealmOffset)]

\* Settings.nextRealm
Settings_nextRealm(a) ==
    LET s == a.Setting
        old == s.AllRealms[s.current + 1]
        next == (s.current + 1) % Len(s.AllRealms)
        new == s.AllRealms[next + 1]
        cleared == [a.Realms EXCEPT ![old].isVisited = FALSE]
    IN  [a EXCEPT !.Realms = [cleared EXCEPT ![new].isVisited = TRUE],
                  !.Setting.current = next]

\* Settings.getCurrentRealm: the index of the Realm object in app.Realms
getCurrentRealm(a) == a.Setting.AllRealms[a.Setting.current + 1]

\* del lst[index], index counted from 0
Del(lst, index) == SubSeq(lst, 1, index) \o SubSeq(lst, index + 2, Len(lst))

\* the days datetime allows in a month
days_in_month(year, month) ==
    IF month = 2
    THEN (IF year % 4 = 0 /\ (year % 100 # 0 \/ year % 400 = 0) THEN 29 ELSE 28)
    ELSE IF month \in {4, 6, 9, 11} THEN 30 ELSE 31

\* datetime(year, month, day, hour, minute): the arguments are converted to
\* ints of C, and one beyond that range raises OverflowError before any
\* field is looked at; then a field out of its range raises ValueError
datetime(year, month, day, hour, minute) ==
    IF ~(year.fits /\ month.fits /\ day.fits /\ hour.fits /\ minute.fits)
    THEN raises("OverflowError")
    ELSE IF /\ year.n \in 1..9999 /\ month.n \in 1..12
            /\ day.n \in 1..days_in_month(year.n, month.n)
            /\ hour.n \in 0..23 /\ minute.n \in 0..59
    THEN returns([year |-> year.n, month |-> month.n, day |-> day.n,
                  hour |-> hour.n, minute |-> minute.n])
    ELSE raises("ValueError")

\* WorldClock.makeTime
makeTime(month, day, year, hr, mins) == datetime(year, month, day, hr, mins)

\* wc.makeTime on the numbers default_elems writes
time_of(month, day, year, hr, mins) ==
    makeTime(in_c_int(month), in_c_int(day), in_c_int(year), in_c_int(hr),
             in_c_int(mins)).value

\* QuestEvent.__init__ of src/app.py; endT is <<>> for None and <<t>> for a
\* time, locat the Realm object.  The description, the party and the
\* rewards are written here only and are left out.
app_QuestEvent(name, startT, endT, locat) ==
    [name |-> name, startTine |-> startT, endTime |-> endT, location |-> locat]

\* default_elems: Settings gets the list AllRealm, GuildQuestApp the list
\* AlRelm, two lists of the same three realms; the campaign and
\* GuildQuestApp get the one list AlQust
default_elems ==
    [Realms |-> <<Realm("realm1", 0), Realm("realm2", 5), Realm("realm3", -3)>>,
     AllRealm |-> <<1, 2, 3>>,
     Setting |-> [AllRealms |-> <<1, 2, 3>>, current |-> 0],
     WorldClock |-> WorldClock_call(NoInstance),
     Quests |-> <<app_QuestEvent("quest1", time_of(1, 1, 2026, 12, 0),
                                 <<time_of(1, 2, 2026, 12, 0)>>, 1),
                  app_QuestEvent("quest2", time_of(1, 3, 2026, 12, 0),
                                 <<time_of(1, 4, 2026, 12, 0)>>, 2)>>,
     lists |-> << <<1, 2>> >>,
     AllQst |-> 1,
     AllCamp |-> <<[name |-> "default campaign", List |-> 1,
                    visibility |-> "public"]>>]

InitApp ==
    /\ users = <<>> /\ realms = <<>> /\ campaigns = <<>> /\ events = <<>>
    /\ id_counters = [realm |-> 1, campaign |-> 1, event |-> 1, char |-> 1]
    /\ current_user = None
    /\ pc = "call" /\ camp = None /\ ev = None /\ last = NoCall
    /\ characters = <<>> /\ issued = NoneIssued /\ file = NoFile
    /\ input = None /\ output = None
    /\ app = default_elems
    /\ edits = 0

\* what no method of src/app.py touches
frameRaised ==
    <<users, realms, campaigns, events, id_counters, current_user, camp,
      ev, characters, issued, file, input>>

\* the target last records when PrintOptions returned no index: None, kept
\* a number below the indices 0, 1, ... a list has
NoIndex == -1

\* the method op returns: a is the application it leaves, printed what it
\* printed or returned, target the entry it acted on
MethodReturns(op, target, a, printed) ==
    /\ app' = a
    /\ output' = printed
    /\ pc' = pc
    /\ last' = Call(op, target, None, None, app)
    /\ UNCHANGED <<frameRaised, edits>>

\* the method op returns after it changed a campaign, a quest or a quest
\* list
MethodWrote(op, target, a) ==
    /\ app' = a
    /\ output' = None
    /\ pc' = pc
    /\ last' = Call(op, target, None, None, app)
    /\ edits' = edits + 1
    /\ UNCHANGED frameRaised

\* the method op raises: a is the application as the statements before the
\* raise left it
MethodRaises(op, target, a, exception) ==
    /\ app' = a
    /\ output' = exception
    /\ pc' = "raised"
    /\ last' = Call(op, target, None, None, app)
    /\ UNCHANGED <<frameRaised, edits>>

\* SettingsMenu.nextRealm
SettingsMenu_nextRealm ==
    /\ pc = "call"
    /\ LET moved == Settings_nextRealm(app)
       IN  MethodReturns("SettingsMenu.nextRealm", None,
                    [moved EXCEPT !.WorldClock.RealmOffset =
                                     moved.Realms[getCurrentRealm(moved)].localTime],
                    None)

\* timeoptions of SettingsMenu.changeTimeOption
timeoptions == <<"world clock", "realm clock", "both">>

\* SettingsMenu.changeTimeOption: selectedTime[None] raises KeyError
SettingsMenu_changeTimeOption(typed) ==
    LET op == "SettingsMenu.changeTimeOption"
        k == PrintOptions(timeoptions, typed)
    IN  /\ pc = "call"
        /\ IF k.raises # None THEN MethodRaises(op, NoIndex, app, k.raises)
           ELSE IF k.value = <<>> THEN MethodRaises(op, NoIndex, app, "KeyError")
           ELSE MethodReturns(op, k.value[1],
                         [app EXCEPT !.WorldClock =
                             updateTimeOption(@, selectedTime(k.value[1]))],
                         None)

\* the int an object holds: the number, or what stands for one beyond an
\* int of C
held(number) == IF number.fits THEN number.n ELSE number

\* RealmMenu.addRealm: WorldClock() is called before the offset typed is
\* read by int()
RealmMenu_addRealm(name, typed) ==
    LET op == "RealmMenu.addRealm"
        called == [app EXCEPT !.WorldClock = WorldClock_call(@)]
        localT == int(typed)
    IN  /\ pc = "call"
        /\ IF localT.raises # None THEN MethodRaises(op, None, called, localT.raises)
           ELSE MethodReturns(op, None,
                         [called EXCEPT
                             !.Realms = Append(@, Realm(name, held(localT.value))),
                             !.AllRealm = Append(@, Len(app.Realms) + 1)],
                         None)

\* the names RealmMenu.removeRealm shows
realm_names(a) == [i \in 1..Len(a.AllRealm) |-> a.Realms[a.AllRealm[i]].name]

\* RealmMenu.removeRealm: self.app[None] raises TypeError
RealmMenu_removeRealm(typed) ==
    LET op == "RealmMenu.removeRealm"
        index == PrintOptions(realm_names(app), typed)
    IN  /\ pc = "call"
        /\ IF index.raises # None THEN MethodRaises(op, NoIndex, app, index.raises)
           ELSE IF index.value = <<>> THEN MethodRaises(op, NoIndex, app, "TypeError")
           ELSE IF app.Realms[app.AllRealm[index.value[1] + 1]].isVisited
           THEN MethodReturns(op, app.AllRealm[index.value[1] + 1], app,
                         "cant remove realm you are currently in")
           ELSE MethodReturns(op, app.AllRealm[index.value[1] + 1],
                         [app EXCEPT !.AllRealm = Del(@, index.value[1])], None)

\* the options of MenuWorldClock
MenuWorldClock_options == <<"Exit Menu", "world clock", "realm clock", "both">>

\* MenuWorldClock.MainMenu: 0 returns; None raises TypeError at
\* UserChoice -= 1; the others hand the int UserChoice - 1 to
\* updateTimeOption, which assigns it to TimeCls and then raises
MenuWorldClock_MainMenu(typed) ==
    LET op == "MenuWorldClock.MainMenu"
        UserChoice == PrintOptions(MenuWorldClock_options, typed)
    IN  /\ pc = "call"
        /\ IF UserChoice.raises # None
           THEN MethodRaises(op, NoIndex, app, UserChoice.raises)
           ELSE IF UserChoice.value = <<>>
           THEN MethodRaises(op, NoIndex, app, "TypeError")
           ELSE IF UserChoice.value = <<0>>
           THEN MethodReturns(op, 0, app, None)
           ELSE LET UserOption == int_object(UserChoice.value[1] - 1)
                    updated == [app EXCEPT !.WorldClock =
                                   updateTimeOption(@, UserOption)]
                IN  IF raises_AttributeError(UserOption)
                    THEN MethodRaises(op, UserChoice.value[1], updated,
                                "AttributeError")
                    ELSE MethodReturns(op, UserChoice.value[1], updated, None)

\* QuestEvent.createTime: WorldClock() is called, then makeTime; output is
\* <<the time returned>>
QuestEvent_createTime(month, day, year, hr, mins) ==
    LET op == "QuestEvent.createTime"
        called == [app EXCEPT !.WorldClock = WorldClock_call(@)]
        made == makeTime(month, day, year, hr, mins)
    IN  /\ pc = "call"
        /\ IF made.raises # None THEN MethodRaises(op, None, called, made.raises)
           ELSE MethodReturns(op, None, called, <<made.value>>)

\* "0", "1 ", "2", "3", "x" and the superscript two
Keys == {<<48>>, <<49, 32>>, <<50>>, <<51>>, <<120>>, <<178>>}

\* the offsets typed at addRealm: "2", " -3" and "two"
TypedOffsets == {<<50>>, <<32, 45, 51>>, <<116, 119, 111>>}

\* the arguments createTime is called with, month, day, year, hr, mins: two
\* times, a day and an hour out of range, and the year 2147483648
Arguments(month, day, year, hr, mins) ==
    <<in_c_int(month), in_c_int(day), year, in_c_int(hr), in_c_int(mins)>>
TimeArguments ==
    {Arguments(1, 5, in_c_int(2026), 12, 0),
     Arguments(2, 29, in_c_int(2024), 0, 59),
     Arguments(2, 29, in_c_int(2026), 12, 0),
     Arguments(1, 5, in_c_int(2026), 24, 0),
     Arguments(1, 1, beyond_c_int(FALSE, <<2, 1, 4, 7, 4, 8, 3, 6, 4, 8>>), 0, 0)}

NextRealm ==
    \/ SettingsMenu_nextRealm
    \/ \E typed \in Keys : SettingsMenu_changeTimeOption(typed)
    \/ /\ Len(app.Realms) < 3 + MaxAdded
       /\ \E typed \in TypedOffsets :
             RealmMenu_addRealm("realm" \o ToString(Len(app.Realms) + 1), typed)
    \/ \E typed \in Keys : RealmMenu_removeRealm(typed)
    \/ \E t \in TimeArguments : QuestEvent_createTime(t[1], t[2], t[3], t[4], t[5])
    \/ \E typed \in Keys : MenuWorldClock_MainMenu(typed)

SpecRealm == InitApp /\ [][NextRealm]_vars

\* the Realm objects flagged visited
Visited == {i \in 1..Len(app.Realms) : app.Realms[i].isVisited}

\* C28: the realm the user is in cannot be removed: RealmMenu.removeRealm
\* never deletes the realm that Settings.getCurrentRealm() returns, the
\* realm flagged visited is exactly the realm at Settings.current, and that
\* index is always within the list.
C28_CurrentRealmNotRemovable ==
    /\ app.Setting.current \in 0..(Len(app.Setting.AllRealms) - 1)
    /\ Visited = {getCurrentRealm(app)}
    /\ (last.op = "RealmMenu.removeRealm" /\ app.AllRealm # last.old.AllRealm)
          => last.target # getCurrentRealm(last.old)

\* updateTimeOption has selected one of the strategies SettingsMenu built,
\* and RealmOffset holds an offset nextRealm wrote, not the 0 of __init__
StrategySelectedAndOffsetSet(w) ==
    /\ w.TimeCls.cls \in {"WorldTime", "RealmTime", "BothTime"}
    /\ w.TimeCls.wc = "MenuWorldClock"
    /\ w.RealmOffset # 0

\* C29: WorldClock is a singleton whose state persists: once
\* updateTimeOption has selected a time strategy and RealmOffset has been
\* set, a later WorldClock() call (RealmMenu.addRealm, QuestEvent.createTime)
\* returns the same instance with TimeCls and RealmOffset unchanged.
C29_WorldClockStatePersists ==
    (/\ last.op \in {"RealmMenu.addRealm", "QuestEvent.createTime"}
     /\ StrategySelectedAndOffsetSet(last.old.WorldClock))
        => /\ app.WorldClock.instance = last.old.WorldClock.instance
           /\ app.WorldClock.TimeCls = last.old.WorldClock.TimeCls
           /\ app.WorldClock.RealmOffset = last.old.WorldClock.RealmOffset


(***************************************************************************)
(* SpecQuest: CampaignMenu and QuestMenu acting on the quests and the      *)
(* quest lists.  A list holds quests by their index in app.Quests;         *)
(* app.lists[app.AllQst] is app.AllQst of the code and app.lists[c.List]   *)
(* the list a campaign c holds.  edits counts the calls that changed a     *)
(* campaign, a quest or a quest list; the disjuncts of NextQuest cap it    *)
(* at MaxWrites.                                                           *)
(***************************************************************************)
\* the longest quest list
MaxQuests == 3

\* the campaigns addCampaign adds
MaxCamps == 1

\* the quests option 3 of QuestMenu adds
MaxMade == 1

\* the changes made to campaigns, quests and quest lists in one run of the
\* menus
MaxWrites == 3

Write == edits < MaxWrites

\* Campaign.__init__: the list passed is kept, not copied
Campaign(name, Qst, vis) == [name |-> name, List |-> Qst, visibility |-> vis]

\* Entities.addEntity on the list object l
addEntity(lists, l, NewObject) == [lists EXCEPT ![l] = Append(@, NewObject)]

\* Entities.removeEntity on the list object l
removeEntity(lists, l, index) ==
    IF index < Len(lists[l]) THEN [lists EXCEPT ![l] = Del(@, index)]
    ELSE lists

\* Campaign.getAllQuests
getAllQuests(a, c) == a.lists[c.List]

\* self.app.AllQst as CampaignMenu and QuestMenu read it
AllQst(a) == a.lists[a.AllQst]

\* CampaignMenu.viz_op
viz_op == <<"public", "private">>

\* selectCampaign and selectQuest once PrintOptions has returned index: None
\* raises TypeError at index > len(...) - 1
select(index, length) ==
    IF index.raises # None THEN index
    ELSE IF index.value = <<>> THEN raises("TypeError")
    ELSE IF index.value[1] > length - 1 THEN returns(0)
    ELSE returns(index.value[1])

\* CampaignMenu.selectCampaign
selectCampaign(a, typed) ==
    select(PrintOptions(a.AllCamp, typed), Len(a.AllCamp))

\* CampaignMenu.addCampaign: a new list, holding the quest picked when y is
\* pressed; AllQst[None] and viz_op[None] raise TypeError
CampaignMenu_addCampaign(name, y, quest, vis) ==
    LET op == "CampaignMenu.addCampaign"
        inx == PrintOptions(AllQst(app), quest)
        visibility == PrintOptions(viz_op, vis)
        QuestsInCamp == IF pressed_y(y) THEN <<AllQst(app)[inx.value[1] + 1]>>
                        ELSE <<>>
        l == Len(app.lists) + 1
    IN  /\ pc = "call"
        /\ IF pressed_y(y) /\ inx.raises # None
           THEN MethodRaises(op, NoIndex, app, inx.raises)
           ELSE IF pressed_y(y) /\ inx.value = <<>>
           THEN MethodRaises(op, NoIndex, app, "TypeError")
           ELSE IF visibility.raises # None
           THEN MethodRaises(op, NoIndex, app, visibility.raises)
           ELSE IF visibility.value = <<>>
           THEN MethodRaises(op, NoIndex, app, "TypeError")
           ELSE MethodWrote(op, None,
                         [app EXCEPT
                             !.lists = Append(@, QuestsInCamp),
                             !.AllCamp = Append(@, Campaign(name, l,
                                            viz_op[visibility.value[1] + 1]))])

\* CampaignMenu.removeCampaign
CampaignMenu_removeCampaign(typed) ==
    LET op == "CampaignMenu.removeCampaign"
        index == selectCampaign(app, typed)
    IN  /\ pc = "call"
        /\ IF index.raises # None THEN MethodRaises(op, NoIndex, app, index.raises)
           ELSE MethodWrote(op, index.value,
                         [app EXCEPT !.AllCamp = Del(@, index.value)])

\* CampaignMenu.addQuestToCamp: AllQst[None] raises TypeError
CampaignMenu_addQuestToCamp(typed, quest) ==
    LET op == "CampaignMenu.addQuestToCamp"
        index == selectCampaign(app, typed)
        questToAdd == PrintOptions(AllQst(app), quest)
    IN  /\ pc = "call"
        /\ IF index.raises # None THEN MethodRaises(op, NoIndex, app, index.raises)
           ELSE IF questToAdd.raises # None
           THEN MethodRaises(op, index.value, app, questToAdd.raises)
           ELSE IF questToAdd.value = <<>>
           THEN MethodRaises(op, index.value, app, "TypeError")
           ELSE MethodWrote(op, index.value,
                         [app EXCEPT !.lists =
                             addEntity(@, app.AllCamp[index.value + 1].List,
                                       AllQst(app)[questToAdd.value[1] + 1])])

\* CampaignMenu.removeQuestFromCamp: removeEntity(None) raises TypeError at
\* index < len(self.List)
CampaignMenu_removeQuestFromCamp(typed, quest) ==
    LET op == "CampaignMenu.removeQuestFromCamp"
        index == selectCampaign(app, typed)
        Camp == app.AllCamp[index.value + 1]
        questToRemove == PrintOptions(getAllQuests(app, Camp), quest)
    IN  /\ pc = "call"
        /\ IF index.raises # None THEN MethodRaises(op, NoIndex, app, index.raises)
           ELSE IF questToRemove.raises # None
           THEN MethodRaises(op, index.value, app, questToRemove.raises)
           ELSE IF questToRemove.value = <<>>
           THEN MethodRaises(op, index.value, app, "TypeError")
           ELSE MethodWrote(op, index.value,
                         [app EXCEPT !.lists =
                             removeEntity(@, Camp.List, questToRemove.value[1])])

\* CampaignMenu.updateCampaignName (option 5): selectCampaign, then rename
CampaignMenu_updateCampaignName(typed, name) ==
    LET op == "CampaignMenu.updateCampaignName"
        index == selectCampaign(app, typed)
    IN  /\ pc = "call"
        /\ IF index.raises # None THEN MethodRaises(op, NoIndex, app, index.raises)
           ELSE MethodWrote(op, index.value,
                      [app EXCEPT !.AllCamp[index.value + 1].name = name])

\* CampaignMenu.changeCampaignVisibility (option 6): the two entries are
\* read, then CampObjs[None] or viz_op[None] raises TypeError
CampaignMenu_changeCampaignVisibility(typed, vis) ==
    LET op == "CampaignMenu.changeCampaignVisibility"
        index == PrintOptions(app.AllCamp, typed)
        visibility == PrintOptions(viz_op, vis)
    IN  /\ pc = "call"
        /\ IF index.raises # None THEN MethodRaises(op, NoIndex, app, index.raises)
           ELSE IF visibility.raises # None
           THEN MethodRaises(op, NoIndex, app, visibility.raises)
           ELSE IF index.value = <<>> \/ visibility.value = <<>>
           THEN MethodRaises(op, NoIndex, app, "TypeError")
           ELSE MethodWrote(op, index.value[1],
                      [app EXCEPT !.AllCamp[index.value[1] + 1].visibility =
                                     viz_op[visibility.value[1] + 1]])

\* CampaignMenu.updateCampaignVisibility: a method the actions table of the
\* menu does not list; selectCampaign, then updateVisibility
CampaignMenu_updateCampaignVisibility(typed, vis) ==
    LET op == "CampaignMenu.updateCampaignVisibility"
        index == selectCampaign(app, typed)
        visibility == PrintOptions(viz_op, vis)
    IN  /\ pc = "call"
        /\ IF index.raises # None THEN MethodRaises(op, NoIndex, app, index.raises)
           ELSE IF visibility.raises # None
           THEN MethodRaises(op, index.value, app, visibility.raises)
           ELSE IF visibility.value = <<>>
           THEN MethodRaises(op, index.value, app, "TypeError")
           ELSE MethodWrote(op, index.value,
                      [app EXCEPT !.AllCamp[index.value + 1].visibility =
                                     viz_op[visibility.value[1] + 1]])

\* QuestMenu.selectQuest
selectQuest(a, typed) ==
    select(PrintOptions(AllQst(a), typed), Len(AllQst(a)))

\* selectRealmForQuest once PrintOptions has returned index: the Realm
\* object picked; AllRealms[None] raises TypeError
realm_at(a, index) ==
    IF index.raises # None THEN index
    ELSE IF index.value = <<>> THEN raises("TypeError")
    ELSE returns(a.AllRealm[index.value[1] + 1])

\* QuestMenu.selectRealmForQuest
selectRealmForQuest(a, typed) == realm_at(a, PrintOptions(a.AllRealm, typed))

\* QuestMenu.changeQuestTime: the five entries are stripped, WorldClock() is
\* called, int() reads the entries in the order month, day, year, hour,
\* mins and raises ValueError on the first it cannot read, then makeTime
\* builds the time or raises
changeQuestTime(typed) ==
    LET month == int(strip(typed.month))
        day == int(strip(typed.day))
        year == int(strip(typed.year))
        hour == int(strip(typed.hour))
        mins == int(strip(typed.mins))
    IN  IF \/ month.raises # None \/ day.raises # None \/ year.raises # None
           \/ hour.raises # None \/ mins.raises # None
        THEN raises("ValueError")
        ELSE makeTime(month.value, day.value, year.value, hour.value, mins.value)

\* what is typed at changeQuestTime
Typed(month, day, year, hour, mins) ==
    [month |-> month, day |-> day, year |-> year, hour |-> hour, mins |-> mins]

\* "1", " 5", "2026", "12", "0"; "2", "30", "2026", "12", "0"; "Jan", "5",
\* "2026", "12", "0"; and "1", "5", "2147483648", "12", "0"
TypedTimes ==
    {Typed(<<49>>, <<32, 53>>, <<50, 48, 50, 54>>, <<49, 50>>, <<48>>),
     Typed(<<50>>, <<51, 48>>, <<50, 48, 50, 54>>, <<49, 50>>, <<48>>),
     Typed(<<74, 97, 110>>, <<53>>, <<50, 48, 50, 54>>, <<49, 50>>, <<48>>),
     Typed(<<49>>, <<53>>, <<50, 49, 52, 55, 52, 56, 51, 54, 52, 56>>,
           <<49, 50>>, <<48>>)}

\* "y" and "n"
TypedYes == {<<121>>, <<110>>}

\* QuestMenu.MainMenu, option 3: the start time is read, the end time when y
\* is pressed, then the realm is picked and the new quest is appended to
\* executeOptions, which is app.AllQst; WorldClock() has been called by the
\* time any of them raises
QuestMenu_addQuest(name, start, y, end, location) ==
    LET op == "QuestMenu.addQuest"
        called == [app EXCEPT !.WorldClock = WorldClock_call(@)]
        startTime == changeQuestTime(start)
        ended == changeQuestTime(end)
        newEndTime == IF pressed_y(y) THEN <<ended.value>> ELSE <<>>
        picked == selectRealmForQuest(app, location)
        q == Len(app.Quests) + 1
    IN  /\ pc = "call"
        /\ IF startTime.raises # None
           THEN MethodRaises(op, NoIndex, called, startTime.raises)
           ELSE IF pressed_y(y) /\ ended.raises # None
           THEN MethodRaises(op, NoIndex, called, ended.raises)
           ELSE IF picked.raises # None
           THEN MethodRaises(op, NoIndex, called, picked.raises)
           ELSE MethodWrote(op, None,
                         [called EXCEPT
                             !.Quests = Append(@, app_QuestEvent(name,
                                            startTime.value, newEndTime,
                                            picked.value)),
                             !.lists = addEntity(@, app.AllQst, q)])

\* QuestMenu.MainMenu, option 4
QuestMenu_removeQuest(typed) ==
    LET op == "QuestMenu.removeQuest"
        index == selectQuest(app, typed)
    IN  /\ pc = "call"
        /\ IF index.raises # None THEN MethodRaises(op, NoIndex, app, index.raises)
           ELSE MethodWrote(op, index.value,
                         [app EXCEPT !.lists =
                             [@ EXCEPT ![app.AllQst] = Del(@, index.value)]])

\* QuestMenu.MainMenu, option 5: Entities.rename on the quest picked, the
\* object every list holding it shows
QuestMenu_updateName(typed, name) ==
    LET op == "QuestMenu.updateName"
        index == selectQuest(app, typed)
    IN  /\ pc = "call"
        /\ IF index.raises # None THEN MethodRaises(op, NoIndex, app, index.raises)
           ELSE MethodWrote(op, index.value,
                      [app EXCEPT !.Quests[AllQst(app)[index.value + 1]].name =
                                     name])

\* QuestMenu.MainMenu, option 6: executeOptions[None] raises TypeError
\* before changeQuestTime is called
QuestMenu_updateStartTime(typed, start) ==
    LET op == "QuestMenu.updateStartTime"
        index == PrintOptions(AllQst(app), typed)
        called == [app EXCEPT !.WorldClock = WorldClock_call(@)]
        newStartTime == changeQuestTime(start)
    IN  /\ pc = "call"
        /\ IF index.raises # None THEN MethodRaises(op, NoIndex, app, index.raises)
           ELSE IF index.value = <<>> THEN MethodRaises(op, NoIndex, app, "TypeError")
           ELSE IF newStartTime.raises # None
           THEN MethodRaises(op, index.value[1], called, newStartTime.raises)
           ELSE MethodWrote(op, index.value[1],
                      [called EXCEPT
                          !.Quests[AllQst(app)[index.value[1] + 1]].startTine =
                              newStartTime.value])

\* QuestMenu.MainMenu, option 7
QuestMenu_updateEndTime(typed, end) ==
    LET op == "QuestMenu.updateEndTime"
        index == PrintOptions(AllQst(app), typed)
        called == [app EXCEPT !.WorldClock = WorldClock_call(@)]
        newEndTime == changeQuestTime(end)
    IN  /\ pc = "call"
        /\ IF index.raises # None THEN MethodRaises(op, NoIndex, app, index.raises)
           ELSE IF index.value = <<>> THEN MethodRaises(op, NoIndex, app, "TypeError")
           ELSE IF newEndTime.raises # None
           THEN MethodRaises(op, index.value[1], called, newEndTime.raises)
           ELSE MethodWrote(op, index.value[1],
                      [called EXCEPT
                          !.Quests[AllQst(app)[index.value[1] + 1]].endTime =
                              <<newEndTime.value>>])

\* QuestMenu.MainMenu, option 8: the quest is picked, then the realm as in
\* option 3
QuestMenu_updateLocation(typed, location) ==
    LET op == "QuestMenu.updateLocation"
        index == PrintOptions(AllQst(app), typed)
        newLocation == selectRealmForQuest(app, location)
    IN  /\ pc = "call"
        /\ IF index.raises # None THEN MethodRaises(op, NoIndex, app, index.raises)
           ELSE IF index.value = <<>> THEN MethodRaises(op, NoIndex, app, "TypeError")
           ELSE IF newLocation.raises # None
           THEN MethodRaises(op, index.value[1], app, newLocation.raises)
           ELSE MethodWrote(op, index.value[1],
                      [app EXCEPT
                          !.Quests[AllQst(app)[index.value[1] + 1]].location =
                              newLocation.value])

\* "0", "1 ", "2", "x" and the superscript two
QuestKeys == {<<48>>, <<49, 32>>, <<50>>, <<120>>, <<178>>}

NextQuest ==
    \/ /\ Write
       /\ Len(app.lists) <= MaxCamps
       /\ \E y \in TypedYes, quest \in QuestKeys, vis \in QuestKeys :
             CampaignMenu_addCampaign("campaign" \o ToString(Len(app.lists) + 1),
                                      y, quest, vis)
    \/ Write /\ \E typed \in QuestKeys : CampaignMenu_removeCampaign(typed)
    \/ Write /\ \E typed \in QuestKeys :
          CampaignMenu_updateCampaignName(typed, "renamed")
    \/ Write /\ \E typed \in QuestKeys, vis \in QuestKeys :
          CampaignMenu_changeCampaignVisibility(typed, vis)
    \/ Write /\ \E typed \in QuestKeys, vis \in QuestKeys :
          CampaignMenu_updateCampaignVisibility(typed, vis)
    \/ Write /\ \E typed \in QuestKeys, quest \in QuestKeys :
          /\ selectCampaign(app, typed).raises = None =>
                Len(getAllQuests(app,
                       app.AllCamp[selectCampaign(app, typed).value + 1]))
                   < MaxQuests
          /\ CampaignMenu_addQuestToCamp(typed, quest)
    \/ Write /\ \E typed \in QuestKeys, quest \in QuestKeys :
          CampaignMenu_removeQuestFromCamp(typed, quest)
    \/ /\ Write
       /\ Len(AllQst(app)) < MaxQuests
       /\ Len(app.Quests) < 2 + MaxMade
       /\ \E start \in TypedTimes, y \in TypedYes, location \in QuestKeys :
          \E end \in IF pressed_y(y) THEN TypedTimes ELSE {start} :
             QuestMenu_addQuest("quest" \o ToString(Len(app.Quests) + 1),
                                start, y, end, location)
    \/ Write /\ \E typed \in QuestKeys : QuestMenu_removeQuest(typed)
    \/ Write /\ \E typed \in QuestKeys :
          QuestMenu_updateName(typed, "renamed")
    \/ Write /\ \E typed \in QuestKeys, start \in TypedTimes :
          QuestMenu_updateStartTime(typed, start)
    \/ Write /\ \E typed \in QuestKeys, end \in TypedTimes :
          QuestMenu_updateEndTime(typed, end)
    \/ Write /\ \E typed \in QuestKeys, location \in QuestKeys :
          QuestMenu_updateLocation(typed, location)

SpecQuest == InitApp /\ [][NextQuest]_vars

\* the quest list of every campaign, in the order of app.AllCamp
CampaignQuests(a) == [i \in 1..Len(a.AllCamp) |-> getAllQuests(a, a.AllCamp[i])]

\* C30: each campaign's quest list is its own container: addQuestToCamp and
\* removeQuestFromCamp change only the selected campaign's quest list and
\* leave app.AllQst unchanged, and adding or removing a quest in QuestMenu
\* leaves every campaign's quest list unchanged.
C30_CampaignQuestListsAreSeparate ==
    /\ last.op \in {"CampaignMenu.addQuestToCamp",
                    "CampaignMenu.removeQuestFromCamp"} =>
          /\ AllQst(app) = AllQst(last.old)
          /\ \A i \in 1..Len(app.AllCamp) :
                i # last.target + 1
                   => CampaignQuests(app)[i] = CampaignQuests(last.old)[i]
    /\ last.op \in {"QuestMenu.addQuest", "QuestMenu.removeQuest"} =>
          CampaignQuests(app) = CampaignQuests(last.old)

=============================================================================
